---- MODULE Spec2Model ----
EXTENDS Integers, Sequences, FiniteSets, TLC

(***************************************************************************)
(* Capture pipeline of the bot: the capture_queue table, the local worker  *)
(* script that analyses pending captures, the background poller of the     *)
(* stats cog and the validation session it runs with the submitter.        *)
(***************************************************************************)

\* ------------------------------------------------------------------ bounds
MaxCaptures == 1          \* rows ever inserted into capture_queue
MaxClock == 4             \* last value NOW() can take (one tick per write)
Backlog == 2              \* Completed rows waiting when the bot starts
MaxAttempts == 3           \* largest max_attempts given to retry

\* --------------------------------------------------------------- constants
None == -1                \* Python None / SQL NULL in an integer or time column
NoneStr == "None"         \* Python None / SQL NULL in a text column

PENDING == "pending"
PROCESSING == "processing"
COMPLETED == "completed"
VALIDATED == "validated"
REJECTED == "rejected"
FAILED == "failed"
CaptureStatus == {PENDING, PROCESSING, COMPLETED, VALIDATED, REJECTED, FAILED}

Workers == {"w1", "w2"}            \* concurrent runs of process_queue.py
Passes == {"loop", "initial"}      \* tasks running check_completed_captures
Users == {1}                       \* discord users submitting captures
Players == {1}                     \* ids of the players table
Builds == {"Service-Volee"}        \* build labels offered by BuildSelectView

\* ---------------------------------------------------- analysis results
\* A decoded JSON object is a function from its keys to values (a dict).
Get(d, k) == IF k \in DOMAIN d THEN d[k] ELSE None
GetStr(d, k) == IF k \in DOMAIN d THEN d[k] ELSE NoneStr
Truthy(d) == DOMAIN d # {}

StatsA == [agility |-> 98, endurance |-> 70, serve |-> 45,
           volley |-> 38, forehand |-> 71, backhand |-> 91]
EquipmentA == << [slot |-> 1, name |-> "Raquette", level |-> 14],
                 [slot |-> 2, name |-> NoneStr, level |-> None] >>
ResultA == [character_name |-> "Mei-Li", character_level |-> 14,
            points |-> 2122, global_power |-> 413,
            stats |-> StatsA, equipment |-> EquipmentA]
ResultB == [ResultA EXCEPT !.points = 2150]
EmptyResult == << >>               \* the JSON object {}
Results == {ResultA, EmptyResult}

\* outcomes of one analysis attempt that end in an exception
Failures == {"timeout", "exit_code", "bad_json"}

\* json.loads: a decoded value with its JSON type, or JSONDecodeError
Decoded(kind, value) == [kind |-> kind, value |-> value]
JSONDecodeError == Decoded("error", << >>)
NoMatch == Decoded("nomatch", << >>)
IsValue(d) == d.kind \notin {"error", "nomatch"}

\* An analysis response, after the decoration and code-fence stripping, by what
\* each decoding attempt of parse_json_response makes of it: json.loads of the
\* text, json.loads of the span from the first { to the last }, and the same
\* after the control characters are removed.
Response(direct, braced, cleaned) ==
  [direct |-> direct, braced |-> braced, cleaned |-> cleaned]

Responses ==
  { Response(Decoded("object", ResultA), NoMatch, NoMatch),      \* the object alone
    Response(JSONDecodeError, Decoded("object", ResultA),
             Decoded("object", ResultA)),                        \* prose around it
    Response(JSONDecodeError, JSONDecodeError,
             Decoded("object", ResultA)),                        \* raw control characters
    Response(Decoded("object", EmptyResult), NoMatch, NoMatch),  \* {}
    Response(JSONDecodeError, Decoded("object", EmptyResult),
             Decoded("object", EmptyResult)),                    \* "No data: {}"
    Response(Decoded("array", << >>), NoMatch, NoMatch),         \* [1, 2]
    Response(Decoded("number", << >>), NoMatch, NoMatch),        \* 42
    Response(Decoded("string", << >>), NoMatch, NoMatch),        \* "unreadable"
    Response(Decoded("null", << >>), NoMatch, NoMatch),          \* null
    Response(JSONDecodeError, NoMatch, NoMatch),                 \* prose, no braces
    Response(JSONDecodeError, JSONDecodeError, JSONDecodeError)  \* {"points": 21
  }

\* the value returned, or JSONDecodeError for the final raise
parse_json_response(response) ==
  IF IsValue(response.direct) THEN response.direct
  ELSE IF IsValue(response.braced) THEN response.braced
  ELSE IF IsValue(response.cleaned) THEN response.cleaned
  ELSE JSONDecodeError

\* The text of a response, token by token: "{" and "}", "m" for a member with
\* a scalar value ("points": 2122, separators included; a "{" inside an object
\* opens a member whose value is an object), "t" for a word of prose and "c"
\* for a raw control character.
Tokens == {"{", "}", "m", "t", "c"}
MaxTokens == 5            \* longest response, in tokens

\* opening minus closing braces among the first k tokens
Depth(text, k) ==
  Cardinality({i \in 1..k : text[i] = "{"}) - Cardinality({i \in 1..k : text[i] = "}"})

\* json.loads: the text decodes when it is one object and nothing else
loads(text) ==
  IF /\ Len(text) >= 2
     /\ \A i \in 1..Len(text) : text[i] \in {"{", "}", "m"}
     /\ \A k \in 1..(Len(text) - 1) : Depth(text, k) >= 1
     /\ Depth(text, Len(text)) = 0
  THEN Decoded("object", text)
  ELSE JSONDecodeError

\* re.search(r'\{[\s\S]*\}', text): from the first { to the last } after it
search(text) ==
  LET opening == {i \in 1..Len(text) : text[i] = "{"}
      closing == {i \in 1..Len(text) : text[i] = "}"}
      first == CHOOSE i \in opening : \A o \in opening : i <= o
      end == CHOOSE i \in closing : \A o \in closing : i >= o
  IN IF opening = {} \/ closing = {} THEN << >>
     ELSE IF end < first THEN << >>
     ELSE <<SubSeq(text, first, end)>>

\* re.sub(r'[\x00-\x1f\x7f-\x9f]', '', text)
text_clean(text) == SelectSeq(text, LAMBDA token : token # "c")

\* what each decoding attempt makes of a text
ResponseOf(text) ==
  LET braced == search(text)
      cleaned == search(text_clean(text))
  IN Response(loads(text),
              IF braced = << >> THEN NoMatch ELSE loads(braced[1]),
              IF cleaned = << >> THEN NoMatch ELSE loads(cleaned[1]))

\* no extraction and no wrapped call in progress
NoImage == << >>
NotExtracted == << >>
NotCalled == << >>

\* no cache, rate limiter, analysis response or migration run under study
NoCache == << >>
NoLimiter == << >>
NoAnswer == << >>
NoDatabase == << >>

VARIABLES
  rows,              \* capture_queue table: rows[id], id = 1..Len(rows)
  now,               \* the database clock
  notified,          \* StatsCog._notified_captures
  captures,          \* captures[w]: pending list a worker run still has to process
  pc,                \* pc[p]: where pass p is suspended
  todo,              \* todo[p]: fetched rows pass p has not finished; Head = current
  sel,               \* sel[p]: player, build and last stats of the validation in progress
  player_stats,      \* player_stats table, in insertion order
  player_equipment,  \* player_equipment table
  created,           \* captures whose capture_stats has inserted but not yet counted
  image,             \* the image handed to extract_stats_v2
  extracted,         \* what extract_stats_v2 returned for it
  wrapper,           \* one call of a function wrapped by retry
  cache,             \* a TTLCache and the function wrapped by cached on it
  limiter,           \* a RateLimiter and the commands it let through
  answer,            \* an analysis response and what parse_json_response made of it
  database,          \* the schema and schema_migrations, as run_migrations leaves them
  last               \* the operation performed by the last step

vars == <<rows, now, notified, captures, pc, todo, sel,
          player_stats, player_equipment, created, image, extracted,
          wrapper, cache, limiter, answer, database, last>>

\* the variables of the library calls, which the queue, the poller and the
\* validation never touch
utils == <<cache, limiter, answer, database>>
libs == <<image, extracted, wrapper, utils>>

UtilsIdle ==
  /\ cache = NoCache
  /\ limiter = NoLimiter
  /\ answer = NoAnswer
  /\ database = NoDatabase

Ids == 1..Len(rows)

\* value of last after a step no property refers to
Quiet == [op |-> "other", id |-> 0]

\* A nullable column holding a JSON text: << >> is NULL, <<d>> the object d.
Null == << >>

\* ------------------------------------------------------------ queue store
\* CaptureQueue.create: INSERT ... status = PENDING RETURNING id, submitted_at
NewRow(id, user, player, build, t) ==
  [id |-> id, discord_user_id |-> user, player_id |-> player,
   build_type |-> build, image_data |-> id, status |-> PENDING,
   submitted_at |-> t, processed_at |-> None, validated_at |-> None,
   result_json |-> Null, error_message |-> NoneStr]

\* mutant: the reply counts every row of the queue
count_rows(rs) == Len(rs)

\* SELECT COUNT(*) FROM capture_queue WHERE status = PENDING
count_pending(rs) == Cardinality({i \in 1..Len(rs) : rs[i].status = PENDING})

\* ids of S ordered by key ascending (ties by id)
RECURSIVE OrderBy(_, _)
OrderBy(S, key) ==
  IF S = {} THEN << >>
  ELSE LET m == CHOOSE x \in S : \A y \in S :
                  \/ key[x] < key[y]
                  \/ (key[x] = key[y] /\ x <= y)
       IN <<m>> \o OrderBy(S \ {m}, key)

\* get_pending_captures: WHERE status = 'pending' ORDER BY submitted_at ASC
get_pending_captures(rs) ==
  OrderBy({i \in 1..Len(rs) : rs[i].status = PENDING},
          [i \in 1..Len(rs) |-> rs[i].submitted_at])

\* mutant: the completion write also restamps the submission
update_capture_completed_restamp(rs, id, result, t) ==
  [rs EXCEPT ![id] = [@ EXCEPT !.status = COMPLETED,
                               !.processed_at = t,
                               !.submitted_at = t,
                               !.result_json = <<result>>]]

\* update_capture_completed: UPDATE ... WHERE id = $2
update_capture_completed(rs, id, result, t) ==
  [rs EXCEPT ![id] = [@ EXCEPT !.status = COMPLETED,
                               !.processed_at = t,
                               !.result_json = <<result>>]]

\* update_capture_failed: UPDATE ... SET status = 'failed' WHERE id = $2
update_capture_failed(rs, id, error, t) ==
  [rs EXCEPT ![id] = [@ EXCEPT !.status = FAILED,
                               !.processed_at = t,
                               !.error_message = error]]

\* CaptureQueue.update_status(new_status, result_json=None, error_message=None)
\* result_json is << >> for None and <<d>> for a dict d.
update_status(rs, id, new_status, result_json, error_message, t) ==
  LET stored == IF result_json # Null /\ Truthy(result_json[1])
                THEN result_json ELSE Null
      r0 == [rs[id] EXCEPT !.status = new_status,
                           !.result_json = stored,
                           !.error_message = error_message]
      r1 == IF new_status = COMPLETED
            THEN [r0 EXCEPT !.processed_at = t]
            ELSE IF new_status \in {VALIDATED, REJECTED}
                 THEN [r0 EXCEPT !.validated_at = t]
                 ELSE r0
  IN [rs EXCEPT ![id] = r1]

\* ------------------------------------------------------------- submission
\* capture_stats: the submitter picked one of their players and a build;
\* a row without player and build is a capture stored by CaptureQueue.create
\* as src/models/capture_queue.py declares it (no player_id, no build_type).
Submit(user, player, build) ==
  /\ Len(rows) < MaxCaptures
  /\ now < MaxClock
  /\ user \in Users
  /\ \/ player \in Players /\ build \in Builds
     \/ player = None /\ build = NoneStr
  /\ now' = now + 1
  /\ rows' = Append(rows, NewRow(Len(rows) + 1, user, player, build, now'))
  /\ created' = created \cup {Len(rows) + 1}
  /\ last' = Quiet
  /\ UNCHANGED <<notified, captures, pc, todo, sel, player_stats, player_equipment, libs>>

\* capture_stats after the insert: pending_count = await count_pending(), then
\* the reply "Position dans la file: {pending_count}" and the admin alert
CountPending(id) ==
  /\ id \in created
  /\ created' = created \ {id}
  /\ last' = [op |-> "queued", id |-> id, pending |-> count_pending(rows)]
  /\ UNCHANGED <<rows, now, notified, captures, pc, todo, sel,
                 player_stats, player_equipment, libs>>

\* ------------------------------------------------------------------ worker
\* main: captures = await get_pending_captures(conn); nothing to do if empty
WorkerStart(w) ==
  LET pending == get_pending_captures(rows) IN
  /\ captures[w] = << >>
  /\ pending # << >>
  /\ captures' = [captures EXCEPT ![w] = pending]
  /\ last' = Quiet
  /\ UNCHANGED <<rows, now, notified, created, libs, pc, todo, sel, player_stats, player_equipment>>

\* process_capture, try branch: the analysis returned and was parsed
ProcessSuccess(w, result) ==
  /\ captures[w] # << >>
  /\ now < MaxClock
  /\ now' = now + 1
  /\ rows' = update_capture_completed(rows, Head(captures[w]), result, now')
  /\ captures' = [captures EXCEPT ![w] = Tail(@)]
  /\ last' = [op |-> "completed", id |-> Head(captures[w])]
  /\ UNCHANGED <<notified, created, libs, pc, todo, sel, player_stats, player_equipment>>

\* mutant: the except branch refuses the capture
OnExtractionErrorRejects(rs, id, error, t) ==
  update_status(rs, id, REJECTED, Null, error, t)

\* mutant: the except branch calls update_capture_failed
OnExtractionErrorFails(rs, id, error, t) ==
  update_capture_failed(rs, id, error, t)

\* what the except branches of process_capture do to the table
OnExtractionError(rs, id, error, t) == rs

\* mutant: a failed capture stays at the head of the list and is tried again
ProcessFailureRetries(w, error) ==
  /\ captures[w] # << >>
  /\ rows' = OnExtractionError(rows, Head(captures[w]), error, now)
  /\ captures' = captures
  /\ last' = [op |-> "extraction_failed", id |-> Head(captures[w])]
  /\ UNCHANGED <<now, notified, created, libs, pc, todo, sel, player_stats, player_equipment>>


\* process_capture, except branches: timeout, non-zero exit, unparsable response
ProcessFailure(w, error) ==
  /\ captures[w] # << >>
  /\ rows' = OnExtractionError(rows, Head(captures[w]), error, now)
  /\ captures' = [captures EXCEPT ![w] = Tail(@)]
  /\ last' = [op |-> "extraction_failed", id |-> Head(captures[w])]
  /\ UNCHANGED <<now, notified, created, libs, pc, todo, sel, player_stats, player_equipment>>

\* process_capture on one response: result.get raises AttributeError on a
\* decoded value that is not a dict, and every exception takes the except branch
process_capture(w, raw_response) ==
  LET result == parse_json_response(raw_response) IN
  IF result.kind = "object"
  THEN ProcessSuccess(w, result.value)
  ELSE ProcessFailure(w, IF result.kind = "error" THEN "bad_json"
                         ELSE "attribute_error")

\* ------------------------------------------------------------------ poller
\* CaptureQueue._from_row: the in-memory copy of a fetched row; only the
\* attributes the session reads are kept
_from_row(row) ==
  [id |-> row.id, discord_user_id |-> row.discord_user_id,
   player_id |-> row.player_id, build_type |-> row.build_type,
   result_json |-> row.result_json]

\* check_completed_captures: SELECT * WHERE status = 'completed'
\* ORDER BY processed_at ASC; each fetched row is a copy (CaptureQueue._from_row)
fetch_completed(rs) ==
  LET ids == OrderBy({i \in 1..Len(rs) : rs[i].status = COMPLETED},
                     [i \in 1..Len(rs) |-> rs[i].processed_at])
  IN [k \in 1..Len(ids) |-> _from_row(rs[ids[k]])]

\* pc of a pass that has no row left: the loop task sleeps until its next
\* iteration, the startup check (_initial_capture_check) has returned
Rest(p) == IF p = "loop" THEN "idle" ELSE "finished"

\* the pass leaves its current row: continue / return from _notify_capture_ready
RowDone(p) ==
  /\ todo' = [todo EXCEPT ![p] = Tail(@)]
  /\ pc' = [pc EXCEPT ![p] = IF Tail(todo[p]) = << >> THEN Rest(p) ELSE "iter"]
  /\ sel' = [sel EXCEPT ![p] = << >>]

\* cog_load starts the loop and the startup check; each runs the same body
PassStart(p) ==
  /\ pc[p] = "idle"
  /\ LET fetched == fetch_completed(rows) IN
       /\ p = "loop" => fetched # << >>
       /\ todo' = [todo EXCEPT ![p] = fetched]
       /\ pc' = [pc EXCEPT ![p] = IF fetched = << >> THEN Rest(p) ELSE "iter"]
  /\ last' = Quiet
  /\ UNCHANGED <<rows, now, notified, captures, created, libs, sel, player_stats, player_equipment>>

\* for row in rows: if capture_id in self._notified_captures: continue
SkipNotified(p) ==
  /\ pc[p] = "iter"
  /\ Head(todo[p]).id \in notified
  /\ RowDone(p)
  /\ last' = Quiet
  /\ UNCHANGED <<rows, now, notified, captures, created, libs, player_stats, player_equipment>>

\* _notified_captures.add(capture_id); _notify_capture_ready up to view.wait():
\* returns early on an empty result_json or when the DM is refused
MarkAndNotify(p, delivered) ==
  LET capture == Head(todo[p]) IN
  /\ notified' = notified \cup {capture.id}
  /\ IF capture.result_json = Null \/ ~Truthy(capture.result_json[1])
     THEN /\ RowDone(p)
          /\ last' = [op |-> "no_result", id |-> capture.id]
     ELSE IF ~delivered
     THEN /\ RowDone(p)
          /\ last' = Quiet
     ELSE /\ pc' = [pc EXCEPT ![p] = "wait"]
          /\ last' = [op |-> "prompt", id |-> capture.id]
          /\ UNCHANGED <<todo, sel>>
  /\ UNCHANGED <<rows, now, captures, created, libs, player_stats, player_equipment>>

\* bot.get_user found the user in the cache: no suspension before the add
NotifyCached(p, delivered) ==
  /\ pc[p] = "iter"
  /\ Head(todo[p]).id \notin notified
  /\ MarkAndNotify(p, delivered)

\* bot.get_user returned None: the pass awaits bot.fetch_user
LookupUser(p) ==
  /\ pc[p] = "iter"
  /\ Head(todo[p]).id \notin notified
  /\ pc' = [pc EXCEPT ![p] = "lookup"]
  /\ last' = Quiet
  /\ UNCHANGED <<rows, now, notified, captures, created, libs, todo, sel, player_stats, player_equipment>>

\* fetch_user returned the user
LookupFound(p, delivered) ==
  /\ pc[p] = "lookup"
  /\ MarkAndNotify(p, delivered)

\* fetch_user raised discord.NotFound: continue
LookupNotFound(p) ==
  /\ pc[p] = "lookup"
  /\ RowDone(p)
  /\ last' = Quiet
  /\ UNCHANGED <<rows, now, notified, captures, created, libs, player_stats, player_equipment>>

\* ------------------------------------------------------ validation session
\* mutant: a refusal only forgets the capture, like an unanswered prompt
RejectForgets(p) ==
  /\ pc[p] = "wait"
  /\ notified' = notified \ {Head(todo[p]).id}
  /\ RowDone(p)
  /\ last' = [op |-> "reject", id |-> Head(todo[p]).id]
  /\ UNCHANGED <<rows, now, captures, created, libs, player_stats, player_equipment>>

\* _reject_capture
Reject(p) ==
  LET capture == Head(todo[p]) IN
  /\ pc[p] = "wait"
  /\ now < MaxClock
  /\ now' = now + 1
  /\ rows' = update_status(rows, capture.id, REJECTED, Null, NoneStr, now')
  /\ notified' = notified \ {capture.id}
  /\ RowDone(p)
  /\ last' = [op |-> "reject", id |-> capture.id]
  /\ UNCHANGED <<captures, created, libs, player_stats, player_equipment>>

\* mutant: an unanswered prompt is handled like a refusal
TimeoutRejects(p) ==
  /\ pc[p] = "wait"
  /\ rows' = update_status(rows, Head(todo[p]).id, REJECTED, Null, NoneStr, now)
  /\ RowDone(p)
  /\ last' = [op |-> "timeout", id |-> Head(todo[p]).id]
  /\ UNCHANGED <<now, notified, captures, created, libs, player_stats, player_equipment>>

\* view.wait() returned with view.validated None: only the message is edited
Timeout(p) ==
  /\ pc[p] = "wait"
  /\ RowDone(p)
  /\ last' = [op |-> "timeout", id |-> Head(todo[p]).id]
  /\ UNCHANGED <<rows, now, notified, captures, created, libs, player_stats, player_equipment>>

\* ---------------------------------------------------------- persistence
\* LOWER() of the character names that occur
Lower(name) ==
  CASE name = "Mei-Li" -> "mei-li"
    [] name = "Inconnu" -> "inconnu"
    [] OTHER -> name

\* PlayerStats.get_latest_for_build: the newest row of the triple, << >> if none
get_latest_for_build(table, player_id, character_name, build_type) ==
  LET match == {i \in 1..Len(table) :
                  /\ table[i].player_id = player_id
                  /\ Lower(table[i].character_name) = Lower(character_name)
                  /\ table[i].build_type = build_type}
  IN IF match = {} THEN << >>
     ELSE <<table[CHOOSE i \in match : \A j \in match :
                    \/ table[j].captured_at < table[i].captured_at
                    \/ (table[j].captured_at = table[i].captured_at /\ j <= i)]>>

\* the same eight values of a stored snapshot
SnapshotValues(s) ==
  <<s.points, s.global_power, s.agility, s.endurance, s.serve, s.volley,
    s.forehand, s.backhand>>

\* mutant: two snapshots are the same only if they also have the same owner
is_same_as_owner(self, other) ==
  IF other = << >> THEN FALSE
  ELSE /\ self.discord_id = other[1].discord_id
       /\ SnapshotValues(self) = SnapshotValues(other[1])

\* mutant: the comparison leaves the trophy points out
is_same_as_power(self, other) ==
  IF other = << >> THEN FALSE
  ELSE Tail(SnapshotValues(self)) = Tail(SnapshotValues(other[1]))

\* mutant: the comparison also reads the character name
is_same_as_name(self, other) ==
  IF other = << >> THEN FALSE
  ELSE /\ self.character_name = other[1].character_name
       /\ SnapshotValues(self) = SnapshotValues(other[1])

\* PlayerStats.is_same_as(self, other); other is << >> for None
is_same_as(self, other) ==
  IF other = << >> THEN FALSE
  ELSE /\ self.points = other[1].points
       /\ self.global_power = other[1].global_power
       /\ self.agility = other[1].agility
       /\ self.endurance = other[1].endurance
       /\ self.serve = other[1].serve
       /\ self.volley = other[1].volley
       /\ self.forehand = other[1].forehand
       /\ self.backhand = other[1].backhand

\* the PlayerStats built from result_json in _validate_capture
NewStats(result, user, player_id, build_type) ==
  LET stats == IF "stats" \in DOMAIN result THEN result.stats ELSE << >>
      name == GetStr(result, "character_name")
  IN [discord_id |-> user, player_id |-> player_id,
      character_name |-> IF name = NoneStr THEN "Inconnu" ELSE name,
      points |-> Get(result, "points"),
      global_power |-> Get(result, "global_power"),
      agility |-> Get(stats, "agility"), endurance |-> Get(stats, "endurance"),
      serve |-> Get(stats, "serve"), volley |-> Get(stats, "volley"),
      forehand |-> Get(stats, "forehand"), backhand |-> Get(stats, "backhand"),
      build_type |-> build_type]

\* PlayerStats.create: INSERT ... RETURNING id, captured_at
create_stats(table, stats, t) ==
  Append(table, [id |-> Len(table) + 1, captured_at |-> t] @@ stats)

\* equipment_data of _validate_capture and PlayerEquipment.create_many
create_many(table, stats_id, result) ==
  LET equipment == IF "equipment" \in DOMAIN result THEN result.equipment ELSE << >>
  IN table \cup
     {[stats_id |-> stats_id, slot |-> equipment[k].slot,
       card_name |-> equipment[k].name, card_level |-> equipment[k].level] :
        k \in {j \in 1..Len(equipment) :
                 \/ equipment[j].name # NoneStr
                 \/ equipment[j].level \notin {None, 0}}}

\* ------------------------------------------------- validation: the decision
\* "save" is the try block of _validate_capture/_validate_capture_legacy after
\* get_latest_for_build has returned
EnterSave(p, player_id, build_type) ==
  LET capture == Head(todo[p])
      new_stats == NewStats(capture.result_json[1], capture.discord_user_id,
                            player_id, build_type)
  IN /\ pc' = [pc EXCEPT ![p] = "save"]
     /\ sel' = [sel EXCEPT ![p] =
                  <<[player_id |-> player_id, build_type |-> build_type,
                     last_stats |-> get_latest_for_build(player_stats, player_id,
                                       new_stats.character_name, build_type)]>>]

\* Validate pressed on a capture that carries its player and build
ValidateClick(p) ==
  LET capture == Head(todo[p]) IN
  /\ pc[p] = "wait"
  /\ capture.player_id # None /\ capture.build_type # NoneStr
  /\ EnterSave(p, capture.player_id, capture.build_type)
  /\ last' = Quiet
  /\ UNCHANGED <<rows, now, notified, captures, created, libs, todo, player_stats, player_equipment>>

\* mutant: without a registered player the validation is only abandoned
ValidateLegacyAbandons(p, players) ==
  LET capture == Head(todo[p]) IN
  /\ pc[p] = "wait"
  /\ capture.player_id = None \/ capture.build_type = NoneStr
  /\ IF players = {}
     THEN /\ RowDone(p)
          /\ last' = [op |-> "no_player", id |-> capture.id]
          /\ UNCHANGED <<rows, now>>
     ELSE /\ pc' = [pc EXCEPT ![p] = "player_select"]
          /\ last' = Quiet
          /\ UNCHANGED <<rows, now, todo, sel>>
  /\ UNCHANGED <<notified, captures, created, libs, player_stats, player_equipment>>

\* Validate pressed on a capture without player or build: _validate_capture_legacy
\* with the players Player.get_by_member returned
ValidateLegacy(p, players) ==
  LET capture == Head(todo[p]) IN
  /\ pc[p] = "wait"
  /\ capture.player_id = None \/ capture.build_type = NoneStr
  /\ IF players = {}
     THEN /\ now < MaxClock
          /\ now' = now + 1
          /\ rows' = update_status(rows, capture.id, REJECTED, Null, NoneStr, now')
          /\ RowDone(p)
          /\ last' = [op |-> "no_player", id |-> capture.id]
     ELSE /\ pc' = [pc EXCEPT ![p] = "player_select"]
          /\ last' = Quiet
          /\ UNCHANGED <<rows, now, todo, sel>>
  /\ UNCHANGED <<notified, captures, created, libs, player_stats, player_equipment>>

\* PlayerSelectView answered
PlayerChosen(p, player) ==
  /\ pc[p] = "player_select"
  /\ pc' = [pc EXCEPT ![p] = "build_select"]
  /\ sel' = [sel EXCEPT ![p] = <<[player_id |-> player]>>]
  /\ last' = Quiet
  /\ UNCHANGED <<rows, now, notified, captures, created, libs, todo, player_stats, player_equipment>>

\* BuildSelectView answered
BuildChosen(p, build) ==
  /\ pc[p] = "build_select"
  /\ EnterSave(p, sel[p][1].player_id, build)
  /\ last' = Quiet
  /\ UNCHANGED <<rows, now, notified, captures, created, libs, todo, player_stats, player_equipment>>

\* a selection view was cancelled or timed out: "Validation annulee."
SelectCancelled(p) ==
  /\ pc[p] \in {"player_select", "build_select"}
  /\ RowDone(p)
  /\ last' = Quiet
  /\ UNCHANGED <<rows, now, notified, captures, created, libs, player_stats, player_equipment>>

\* --------------------------------------------------- validation: the writes
\* the try block: unchanged stats only mark the capture, changed stats are
\* inserted with their equipment first
Save(p) ==
  LET capture == Head(todo[p])
      s == sel[p][1]
      result == capture.result_json[1]
      new_stats == NewStats(result, capture.discord_user_id, s.player_id, s.build_type)
  IN
  /\ pc[p] = "save"
  /\ now < MaxClock
  /\ now' = now + 1
  /\ IF s.last_stats # << >> /\ is_same_as(new_stats, s.last_stats)
     THEN /\ last' = [op |-> "unchanged", id |-> capture.id]
          /\ UNCHANGED <<player_stats, player_equipment>>
     ELSE /\ player_stats' = create_stats(player_stats, new_stats, now')
          /\ player_equipment' = create_many(player_equipment,
                                             Len(player_stats) + 1, result)
          /\ last' = [op |-> "validated", id |-> capture.id]
  /\ rows' = update_status(rows, capture.id, VALIDATED, Null, NoneStr, now')
  /\ notified' = notified \ {capture.id}
  /\ RowDone(p)
  /\ UNCHANGED <<captures, created, libs>>

\* the database calls of the try block after get_latest_for_build
SaveCalls == {"create", "create_many", "update_status"}

\* a handler whose except branch would edit the message to the success text
SaveFailedAcknowledged(p, failed) ==
  LET capture == Head(todo[p])
      s == sel[p][1]
      result == capture.result_json[1]
      new_stats == NewStats(result, capture.discord_user_id, s.player_id, s.build_type)
      same == s.last_stats # << >> /\ is_same_as(new_stats, s.last_stats)
      equipped == create_many(player_equipment, Len(player_stats) + 1, result)
  IN
  /\ pc[p] = "save"
  /\ same => failed = "update_status"
  /\ failed = "create_many" => equipped # player_equipment
  /\ IF same \/ failed = "create"
     THEN UNCHANGED <<now, player_stats, player_equipment>>
     ELSE /\ now < MaxClock
          /\ now' = now + 1
          /\ player_stats' = create_stats(player_stats, new_stats, now')
          /\ player_equipment' = IF failed = "create_many"
                                 THEN player_equipment ELSE equipped
  /\ RowDone(p)
  /\ last' = [op |-> "validated", id |-> capture.id]
  /\ UNCHANGED <<rows, notified, captures, created, libs>>

\* the database call `failed` of the try block raised; the calls before it
\* have been committed and the except branch edits the message to the error
SaveFailed(p, failed) ==
  LET capture == Head(todo[p])
      s == sel[p][1]
      result == capture.result_json[1]
      new_stats == NewStats(result, capture.discord_user_id, s.player_id, s.build_type)
      same == s.last_stats # << >> /\ is_same_as(new_stats, s.last_stats)
      equipped == create_many(player_equipment, Len(player_stats) + 1, result)
  IN
  /\ pc[p] = "save"
  /\ same => failed = "update_status"
  /\ failed = "create_many" => equipped # player_equipment
  /\ IF same \/ failed = "create"
     THEN UNCHANGED <<now, player_stats, player_equipment>>
     ELSE /\ now < MaxClock
          /\ now' = now + 1
          /\ player_stats' = create_stats(player_stats, new_stats, now')
          /\ player_equipment' = IF failed = "create_many"
                                 THEN player_equipment ELSE equipped
  /\ RowDone(p)
  /\ last' = [op |-> "save_error", id |-> capture.id]
  /\ UNCHANGED <<rows, notified, captures, created, libs>>

Init ==
  /\ rows = << >>
  /\ now = 0
  /\ notified = {}
  /\ captures = [w \in Workers |-> << >>]
  /\ pc = [p \in Passes |-> "idle"]
  /\ todo = [p \in Passes |-> << >>]
  /\ sel = [p \in Passes |-> << >>]
  /\ player_stats = << >>
  /\ player_equipment = {}
  /\ created = {}
  /\ image = NoImage
  /\ extracted = NotExtracted
  /\ wrapper = NotCalled
  /\ UtilsIdle
  /\ last = Quiet

Next ==
  \/ \E u \in Users, p \in Players \cup {None}, b \in Builds \cup {NoneStr} : Submit(u, p, b)
  \/ \E w \in Workers : WorkerStart(w)
  \/ \E w \in Workers, r \in Results : ProcessSuccess(w, r)
  \/ \E w \in Workers, e \in Failures : ProcessFailure(w, e)
  \/ \E p \in Passes : PassStart(p)
  \/ \E p \in Passes : SkipNotified(p)
  \/ \E p \in Passes, d \in BOOLEAN : NotifyCached(p, d)
  \/ \E p \in Passes : LookupUser(p)
  \/ \E p \in Passes, d \in BOOLEAN : LookupFound(p, d)
  \/ \E p \in Passes : LookupNotFound(p)
  \/ \E p \in Passes : Reject(p)
  \/ \E p \in Passes : Timeout(p)
  \/ \E p \in Passes : ValidateClick(p)
  \/ \E p \in Passes, ps \in SUBSET Players : ValidateLegacy(p, ps)
  \/ \E p \in Passes, pl \in Players : PlayerChosen(p, pl)
  \/ \E p \in Passes, b \in Builds : BuildChosen(p, b)
  \/ \E p \in Passes : SelectCancelled(p)
  \/ \E p \in Passes : Save(p)
  \* a failing create_many is explored in PassStep and FailingStoreNext
  \/ \E p \in Passes, c \in {"create", "update_status"} : SaveFailed(p, c)

Spec == Init /\ [][Next]_vars

\* -------------------------------------------------- the loop task alone
\* the whole program once the startup check of cog_load has returned: only
\* the five-minute loop polls
LoopOnlyNext ==
  \/ \E u \in Users, p \in Players \cup {None}, b \in Builds \cup {NoneStr} : Submit(u, p, b)
  \/ \E w \in Workers : WorkerStart(w)
  \/ \E w \in Workers, r \in Results : ProcessSuccess(w, r)
  \/ \E w \in Workers, e \in Failures : ProcessFailure(w, e)
  \/ PassStart("loop")
  \/ SkipNotified("loop")
  \/ \E d \in BOOLEAN : NotifyCached("loop", d)
  \/ LookupUser("loop")
  \/ \E d \in BOOLEAN : LookupFound("loop", d)
  \/ LookupNotFound("loop")
  \/ Reject("loop")
  \/ Timeout("loop")
  \/ ValidateClick("loop")
  \/ \E ps \in SUBSET Players : ValidateLegacy("loop", ps)
  \/ \E pl \in Players : PlayerChosen("loop", pl)
  \/ \E b \in Builds : BuildChosen("loop", b)
  \/ SelectCancelled("loop")
  \/ Save("loop")
  \/ \E c \in {"create", "update_status"} : SaveFailed("loop", c)

LoopOnlySpec == Init /\ [][LoopOnlyNext]_vars


\* ------------------------------------------------- the queue on its own
\* submissions, their reply and the worker runs; the reply of capture_stats
\* writes nothing, so Next leaves it out
QueueNext ==
  \/ \E u \in Users, p \in Players \cup {None}, b \in Builds \cup {NoneStr} : Submit(u, p, b)
  \/ \E i \in Ids : CountPending(i)
  \/ \E w \in Workers : WorkerStart(w)
  \/ \E w \in Workers, r \in Results \cup {ResultB} : ProcessSuccess(w, r)
  \/ \E w \in Workers, e \in Failures : ProcessFailure(w, e)
  \/ \E w \in Workers, r \in Responses : process_capture(w, r)

QueueSpec == Init /\ [][QueueNext]_vars

\* ------------------------------------------------------- one worker run
\* Pending rows waiting when the worker is started (by hand or by cron), in
\* the order of their insertion
PendingState ==
  /\ \E player \in Players \cup {None} :
       rows = [i \in 1..Backlog |->
                 NewRow(i, 1, player,
                        IF player = None THEN NoneStr ELSE "Service-Volee",
                        i - Backlog - 1)]
  /\ now = 0
  /\ notified = {}
  /\ captures = [w \in Workers |-> << >>]
  /\ pc = [p \in Passes |-> "idle"]
  /\ todo = [p \in Passes |-> << >>]
  /\ sel = [p \in Passes |-> << >>]
  /\ player_stats = << >>
  /\ player_equipment = {}
  /\ created = {}
  /\ image = NoImage
  /\ extracted = NotExtracted
  /\ wrapper = NotCalled
  /\ UtilsIdle
  /\ last = Quiet

\* the body of "for capture in captures": one call of process_capture
WorkerStep(w) ==
  \/ \E r \in Results \cup {ResultB} : ProcessSuccess(w, r)
  \/ \E e \in Failures : ProcessFailure(w, e)
  \/ \E r \in Responses : process_capture(w, r)

WorkerNext ==
  \/ \E w \in Workers : WorkerStart(w)
  \/ \E w \in Workers : WorkerStep(w)

\* process_capture always returns: the analysis is bounded by its 180 s
\* timeout and every exception of the try block is caught, so the loop of a
\* started run goes on to its next capture
WorkerSpec ==
  PendingState /\ [][WorkerNext]_vars /\ \A w \in Workers : WF_vars(WorkerStep(w))


\* ------------------------------------------------------------ fair poller
\* The steps of pass p. The loop task runs every five minutes, the event loop
\* resumes a task whose await has completed, and every view times out.
PassStep(p) ==
  \/ PassStart(p)
  \/ SkipNotified(p)
  \/ NotifyCached(p, TRUE)
  \/ LookupUser(p)
  \/ LookupFound(p, TRUE)
  \/ Reject(p)
  \/ Timeout(p)
  \/ ValidateClick(p)
  \/ \E ps \in SUBSET Players : ValidateLegacy(p, ps)
  \/ \E pl \in Players : PlayerChosen(p, pl)
  \/ \E b \in Builds : BuildChosen(p, b)
  \/ SelectCancelled(p)
  \/ Save(p)
  \/ \E c \in SaveCalls : SaveFailed(p, c)

\* Next with a submitter who can always be reached: fetch_user finds the user
\* and the DM is delivered
NextReachable ==
  \/ \E u \in Users, p \in Players \cup {None}, b \in Builds \cup {NoneStr} : Submit(u, p, b)
  \/ \E w \in Workers : WorkerStart(w)
  \/ \E w \in Workers, r \in Results : ProcessSuccess(w, r)
  \/ \E w \in Workers, e \in Failures : ProcessFailure(w, e)
  \/ \E p \in Passes : PassStep(p)

FairSpec ==
  /\ Init
  /\ [][NextReachable]_vars
  /\ \A p \in Passes : WF_vars(PassStep(p))

\* ------------------------------------------------- start with a backlog
\* The tables outlive the bot. The worker script runs on its own, so the bot
\* can start (cog_load) on captures that were submitted and analysed before:
\* the case _initial_capture_check exists for. Row i was submitted i-th; the
\* analyses finished in any order (a failed attempt leaves a row Pending for
\* a later run); timestamps of the past are below -1.
Orders(n) == {f \in [1..n -> 1..n] : \A i, j \in 1..n : f[i] = f[j] => i = j}

BacklogRow(i, user, player, build, result, rank) ==
  [NewRow(i, user, player, build, i - 2 * Backlog - 2)
     EXCEPT !.status = COMPLETED,
            !.processed_at = rank - Backlog - 2,
            !.result_json = <<result>>]

BacklogState(pc0) ==
  /\ \E order \in Orders(Backlog),
        res \in [1..Backlog -> {ResultA, ResultB}],
        shared \in BOOLEAN, player \in Players, build \in Builds :
       rows = [i \in 1..Backlog |->
                 BacklogRow(i, IF shared THEN 1 ELSE i, player, build,
                            res[i], order[i])]
  /\ now = 0
  /\ notified = {}
  /\ captures = [w \in Workers |-> << >>]
  /\ pc = pc0
  /\ todo = [p \in Passes |-> << >>]
  /\ sel = [p \in Passes |-> << >>]
  /\ player_stats = << >>
  /\ player_equipment = {}
  /\ created = {}
  /\ image = NoImage
  /\ extracted = NotExtracted
  /\ wrapper = NotCalled
  /\ UtilsIdle
  /\ last = Quiet

BacklogInit == BacklogState([p \in Passes |-> "idle"])

\* the same rows found by the loop after the startup check has returned
LoopInit == BacklogState([p \in Passes |-> Rest(p)])

\* the poller and the sessions of captures that carry their player and build,
\* with every submitter in the bot's user cache and reachable by DM
BacklogNext ==
  \/ \E p \in Passes : PassStart(p)
  \/ \E p \in Passes : SkipNotified(p)
  \/ \E p \in Passes : NotifyCached(p, TRUE)
  \/ \E p \in Passes : Reject(p)
  \/ \E p \in Passes : Timeout(p)
  \/ \E p \in Passes : ValidateClick(p)
  \/ \E p \in Passes : Save(p)

BacklogSpec == BacklogInit /\ [][BacklogNext]_vars

\* ------------------------------------------------- captures without player
\* Completed rows stored without player and build (CaptureQueue.create as the
\* model file declares it), waiting when the bot starts
LegacyInit ==
  /\ \E order \in Orders(Backlog), shared \in BOOLEAN :
       rows = [i \in 1..Backlog |->
                 BacklogRow(i, IF shared THEN 1 ELSE i, None, NoneStr,
                            ResultA, order[i])]
  /\ now = 0
  /\ notified = {}
  /\ captures = [w \in Workers |-> << >>]
  /\ pc = [p \in Passes |-> "idle"]
  /\ todo = [p \in Passes |-> << >>]
  /\ sel = [p \in Passes |-> << >>]
  /\ player_stats = << >>
  /\ player_equipment = {}
  /\ created = {}
  /\ image = NoImage
  /\ extracted = NotExtracted
  /\ wrapper = NotCalled
  /\ UtilsIdle
  /\ last = Quiet

\* the poller and the sessions of those captures: the player and the build
\* are asked for after the Validate click
LegacyNext ==
  \/ \E p \in Passes : PassStart(p)
  \/ \E p \in Passes : SkipNotified(p)
  \/ \E p \in Passes : NotifyCached(p, TRUE)
  \/ \E p \in Passes : Reject(p)
  \/ \E p \in Passes : Timeout(p)
  \/ \E p \in Passes, ps \in SUBSET Players : ValidateLegacy(p, ps)
  \/ \E p \in Passes, pl \in Players : PlayerChosen(p, pl)
  \/ \E p \in Passes, b \in Builds : BuildChosen(p, b)
  \/ \E p \in Passes : SelectCancelled(p)
  \/ \E p \in Passes : Save(p)

LegacySpec == LegacyInit /\ [][LegacyNext]_vars

\* the loop alone, with a store whose calls can fail during the save
FailingStoreNext ==
  \/ BacklogNext
  \/ \E p \in Passes, c \in SaveCalls : SaveFailed(p, c)

FailingStoreSpec == LoopInit /\ [][FailingStoreNext]_vars

\* the same with an empty user cache: every submitter is looked up with
\* fetch_user, which can raise NotFound
ColdCacheNext ==
  \/ \E p \in Passes : PassStart(p)
  \/ \E p \in Passes : SkipNotified(p)
  \/ \E p \in Passes : LookupUser(p)
  \/ \E p \in Passes : LookupFound(p, TRUE)
  \/ \E p \in Passes : LookupNotFound(p)
  \/ \E p \in Passes : Reject(p)
  \/ \E p \in Passes : Timeout(p)
  \/ \E p \in Passes : ValidateClick(p)
  \/ \E p \in Passes : Save(p)

ColdCacheSpec == BacklogInit /\ [][ColdCacheNext]_vars

\* ------------------------------------------------- is_same_as on its own
\* a stored snapshot of ResultA and snapshots that differ from it in one
\* attribute: each compared value changed, two of them missing, and each
\* attribute the comparison does not read
SnapshotA ==
  create_stats(<< >>, NewStats(ResultA, 1, 1, "Service-Volee"), 1)[1]

SnapshotSamples ==
  {SnapshotA,
   [SnapshotA EXCEPT !.points = 2150], [SnapshotA EXCEPT !.points = None],
   [SnapshotA EXCEPT !.global_power = 420],
   [SnapshotA EXCEPT !.agility = 99], [SnapshotA EXCEPT !.endurance = 71],
   [SnapshotA EXCEPT !.serve = 46], [SnapshotA EXCEPT !.volley = 39],
   [SnapshotA EXCEPT !.forehand = 72],
   [SnapshotA EXCEPT !.backhand = 92], [SnapshotA EXCEPT !.backhand = None],
   [SnapshotA EXCEPT !.character_name = "Inconnu"],
   [SnapshotA EXCEPT !.discord_id = 2], [SnapshotA EXCEPT !.player_id = None],
   [SnapshotA EXCEPT !.build_type = NoneStr],
   [SnapshotA EXCEPT !.id = 2, !.captured_at = 2],
   [comment |-> "finale"] @@ SnapshotA}

\* player_stats holds the arguments: self, then other unless other is None
CompareInit ==
  /\ \/ \E a, b \in SnapshotSamples : player_stats = <<a, b>>
     \/ \E a \in SnapshotSamples : player_stats = <<a>>
  /\ rows = << >>
  /\ now = 0
  /\ notified = {}
  /\ captures = [w \in Workers |-> << >>]
  /\ pc = [p \in Passes |-> "idle"]
  /\ todo = [p \in Passes |-> << >>]
  /\ sel = [p \in Passes |-> << >>]
  /\ player_equipment = {}
  /\ created = {}
  /\ image = NoImage
  /\ extracted = NotExtracted
  /\ wrapper = NotCalled
  /\ UtilsIdle
  /\ last = Quiet

\* new_stats.is_same_as(last_stats); last.id is 1 for True and 0 for False
CallIsSameAs ==
  /\ last = Quiet
  /\ last' = [op |-> "is_same_as",
              id |-> IF is_same_as(Head(player_stats), Tail(player_stats))
                     THEN 1 ELSE 0]
  /\ UNCHANGED <<rows, now, notified, captures, created, libs, pc, todo, sel,
                 player_stats, player_equipment>>

CompareSpec == CompareInit /\ [][CallIsSameAs]_vars

\* ------------------------------------------------------------ maintenance
\* BuildTypes.STAT_NAMES, in the order of the dict
STAT_NAMES ==
  << [key |-> "agility", name |-> "Agilite"],
     [key |-> "endurance", name |-> "Endurance"],
     [key |-> "serve", name |-> "Service"],
     [key |-> "volley", name |-> "Volee"],
     [key |-> "forehand", name |-> "Coup droit"],
     [key |-> "backhand", name |-> "Revers"] >>
THRESHOLD_DOMINANT == 20      \* percent above the mean
THRESHOLD_BALANCED == 15      \* percent around the mean

\* BuildTypes.calculate: the deviation of a value v from the mean total/6 is
\* (6 v - total) / total, compared here in exact arithmetic
calculate(stats) ==
  LET keys == 1..Len(STAT_NAMES)
      value(k) == stats[STAT_NAMES[k].key]
      total == value(1) + value(2) + value(3) + value(4) + value(5) + value(6)
      deviation(k) == 6 * value(k) - total
      Abs(x) == IF x < 0 THEN 0 - x ELSE x
      \* sorted by decreasing value, equal values in dict order
      Before(a, b) == value(a) > value(b) \/ (value(a) = value(b) /\ a < b)
      Rank(S, k) == Cardinality({o \in S : Before(o, k)}) + 1
      dominant == {k \in keys : 100 * deviation(k) >= THRESHOLD_DOMINANT * total}
      dominant_stats == IF dominant # {}
                        THEN {k \in dominant : Rank(dominant, k) <= 3}
                        ELSE {k \in keys : Rank(keys, k) <= 2}
      nth(n) == STAT_NAMES[CHOOSE k \in dominant_stats :
                             Rank(dominant_stats, k) = n].name
  IN IF total = 0 THEN "Inconnu"
     ELSE IF \A k \in keys :
               100 * Abs(deviation(k)) <= THRESHOLD_BALANCED * total
          THEN "Equilibre"
     ELSE IF Cardinality(dominant_stats) = 1 THEN nth(1)
     ELSE IF Cardinality(dominant_stats) = 2 THEN nth(1) \o "-" \o nth(2)
     ELSE nth(1) \o "-" \o nth(2) \o "-" \o nth(3)

\* row['agility'] or 0
OrZero(v) == IF v = None THEN 0 ELSE v

\* one run of recalculate_builds.py: every player_stats row whose stored build
\* differs from the calculated one is updated, unless --dry-run
recalculate_builds(dry_run) ==
  LET new_build(row) ==
        calculate([k \in {STAT_NAMES[i].key : i \in 1..Len(STAT_NAMES)} |->
                     OrZero(row[k])])
  IN
  /\ player_stats' =
       IF dry_run THEN player_stats
       ELSE [i \in 1..Len(player_stats) |->
               [player_stats[i] EXCEPT !.build_type = new_build(player_stats[i])]]
  /\ last' = [op |-> "recalculated", id |-> 0]
  /\ UNCHANGED <<rows, now, notified, captures, created, libs, pc, todo, sel,
                 player_equipment>>

\* the bot on a backlog, with the maintenance script run at any time
MaintenanceNext ==
  \/ BacklogNext
  \/ \E dry_run \in BOOLEAN : recalculate_builds(dry_run)

MaintenanceSpec == LoopInit /\ [][MaintenanceNext]_vars

\* ------------------------------------------------------- extraction: text
\* A text is a sequence of one-character strings.
Digits == <<"0", "1", "2", "3", "4", "5", "6", "7", "8", "9">>
Small == <<"a", "b", "c", "d", "e", "f", "g", "h", "i", "j", "k", "l", "m",
           "n", "o", "p", "q", "r", "s", "t", "u", "v", "w", "x", "y", "z",
           "é", "è", "ê", "ï", "ô", "à">>
Capital == <<"A", "B", "C", "D", "E", "F", "G", "H", "I", "J", "K", "L", "M",
             "N", "O", "P", "Q", "R", "S", "T", "U", "V", "W", "X", "Y", "Z",
             "É", "È", "Ê", "Ï", "Ô", "À">>

IsDigit(c) == \E i \in 1..Len(Digits) : Digits[i] = c
IsLetter(c) == \E i \in 1..Len(Small) : c \in {Small[i], Capital[i]}
IsWord(c) == IsLetter(c) \/ IsDigit(c) \/ c = "_"             \* \w
IsSeparator(c) == c \in {" ", "\n", "\t", ":"}                \* [\s:]

\* int() of a text of digits
RECURSIVE int(_)
int(digits) ==
  IF digits = << >> THEN 0
  ELSE 10 * int(SubSeq(digits, 1, Len(digits) - 1))
       + (CHOOSE i \in 1..Len(Digits) : Digits[i] = digits[Len(digits)]) - 1

\* str.lower() and str.capitalize()
lower_char(c) ==
  IF \E i \in 1..Len(Capital) : Capital[i] = c
  THEN Small[CHOOSE i \in 1..Len(Capital) : Capital[i] = c] ELSE c
upper_char(c) ==
  IF \E i \in 1..Len(Small) : Small[i] = c
  THEN Capital[CHOOSE i \in 1..Len(Small) : Small[i] = c] ELSE c
lower(text) == [i \in 1..Len(text) |-> lower_char(text[i])]
capitalize(text) ==
  [i \in 1..Len(text) |-> IF i = 1 THEN upper_char(text[i]) ELSE lower_char(text[i])]

\* .replace('é', 'e').replace('è', 'e').replace('ê', 'e')
\* .replace('ï', 'i').replace('ô', 'o').replace('à', 'a')
normalize_char(c) ==
  CASE c \in {"é", "è", "ê"} -> "e"
    [] c = "ï" -> "i"
    [] c = "ô" -> "o"
    [] c = "à" -> "a"
    [] OTHER -> c
normalize(text) == [i \in 1..Len(text) |-> normalize_char(text[i])]

\* sub in text
Contains(sub, text) ==
  \E i \in 0..(Len(text) - Len(sub)) : SubSeq(text, i + 1, i + Len(sub)) = sub

\* length of the longest run of characters of a class (the digits of \d+ or
\* the separators of [\s:]*) that starts at text[i]
RunLen(text, i, class) ==
  LET Class(c) == IF class = "digit" THEN IsDigit(c) ELSE IsSeparator(c) IN
  CHOOSE n \in 0..(Len(text) - i + 1) :
    /\ \A j \in i..(i + n - 1) : Class(text[j])
    /\ i + n <= Len(text) => ~Class(text[i + n])

\* re.sub(r'\d+/\d+', '', text): the progress bars (11/500) are removed
RECURSIVE remove_progress(_)
remove_progress(text) ==
  IF text = << >> THEN << >>
  ELSE LET a == RunLen(text, 1, "digit")
           b == IF a > 0 /\ a < Len(text) /\ text[a + 1] = "/"
                THEN RunLen(text, a + 2, "digit") ELSE 0
       IN IF b > 0
          THEN remove_progress(SubSeq(text, a + b + 2, Len(text)))
          ELSE <<Head(text)>> \o remove_progress(Tail(text))

\* card_pattern = (?:le |la |l[' or backquote])?(\w{3,})[\s:]*(\d{1,2})\b
\* the ways the optional article can match, in the order the engine tries them
Backquote == "backquote"      \* stands for the character U+0060
Articles == << <<"l", "e", " ">>, <<"l", "a", " ">>, <<"l", "'">>,
               <<"l", Backquote>>, << >> >>

StartsWith(text, i, prefix) ==
  /\ i + Len(prefix) - 1 <= Len(text)
  /\ SubSeq(text, i, i + Len(prefix) - 1) = prefix

\* the matches of card_pattern that start at text[i]: article a, a name of n
\* word characters, all the separators that follow, d digits, a word boundary
CardMatches(text, i) ==
  { m \in [a : 1..Len(Articles), n : 3..Len(text), d : 1..2] :
      LET p == i + Len(Articles[m.a])
          q == p + m.n
          r == IF q <= Len(text) THEN q + RunLen(text, q, "separator") ELSE q
      IN /\ StartsWith(text, i, Articles[m.a])
         /\ q - 1 <= Len(text)
         /\ \A j \in p..(q - 1) : IsWord(text[j])
         /\ r + m.d - 1 <= Len(text)
         /\ \A j \in r..(r + m.d - 1) : IsDigit(text[j])
         /\ r + m.d <= Len(text) => ~IsWord(text[r + m.d]) }

\* the match the engine returns: first article that works, then the longest
\* name, then the longest number
Preferred(matches) ==
  CHOOSE m \in matches :
    \A o \in matches :
      \/ m.a < o.a
      \/ m.a = o.a /\ m.n > o.n
      \/ m.a = o.a /\ m.n = o.n /\ m.d >= o.d

\* re.findall(card_pattern, text) from text[i] on: (name, level_str) pairs
RECURSIVE findall(_, _)
findall(text, i) ==
  IF i > Len(text) THEN << >>
  ELSE LET matches == CardMatches(text, i) IN
       IF matches = {} THEN findall(text, i + 1)
       ELSE LET m == Preferred(matches)
                p == i + Len(Articles[m.a])
                r == p + m.n + (IF p + m.n <= Len(text)
                                THEN RunLen(text, p + m.n, "separator") ELSE 0)
            IN << [name |-> SubSeq(text, p, p + m.n - 1),
                   level_str |-> SubSeq(text, r, r + m.d - 1)] >>
               \o findall(text, r + m.d)

\* ---------------------------------------------------- extraction: resolver
CARD_TO_SLOT ==
  << [card_key |-> <<"b", "a", "s", "i", "q", "u", "e">>, slot |-> 1],
     [card_key |-> <<"s", "t", "a", "r", "t", "e", "r", " ", "r", "a", "c", "k", "e", "t">>, slot |-> 1],
     [card_key |-> <<"a", "i", "g", "l", "e">>, slot |-> 1],
     [card_key |-> <<"e", "a", "g", "l", "e">>, slot |-> 1],
     [card_key |-> <<"p", "a", "n", "t", "h", "e", "r", "e">>, slot |-> 1],
     [card_key |-> <<"p", "a", "n", "t", "h", "è", "r", "e">>, slot |-> 1],
     [card_key |-> <<"p", "a", "n", "t", "h", "e", "r">>, slot |-> 1],
     [card_key |-> <<"p", "a", "n", "t", "e", "r">>, slot |-> 1],
     [card_key |-> <<"s", "a", "m", "o", "u", "r", "a", "i">>, slot |-> 1],
     [card_key |-> <<"s", "a", "m", "o", "u", "r", "a", "ï">>, slot |-> 1],
     [card_key |-> <<"p", "a", "t", "r", "i", "o", "t", "e">>, slot |-> 1],
     [card_key |-> <<"p", "a", "t", "r", "i", "o", "t">>, slot |-> 1],
     [card_key |-> <<"o", "u", "t", "b", "a", "c", "k">>, slot |-> 1],
     [card_key |-> <<"m", "a", "r", "t", "e", "a", "u">>, slot |-> 1],
     [card_key |-> <<"h", "a", "m", "m", "e", "r">>, slot |-> 1],
     [card_key |-> <<"m", "i", "l", "l", "e">>, slot |-> 1],
     [card_key |-> <<"b", "u", "l", "l", "s", "e", "y", "e">>, slot |-> 1],
     [card_key |-> <<"z", "e", "u", "s">>, slot |-> 1],
     [card_key |-> <<"g", "u", "e", "r", "r", "i", "e", "r">>, slot |-> 2],
     [card_key |-> <<"w", "a", "r", "r", "i", "o", "r">>, slot |-> 2],
     [card_key |-> <<"m", "a", "c", "h", "e", "t", "t", "e">>, slot |-> 2],
     [card_key |-> <<"m", "a", "c", "h", "e", "t", "e">>, slot |-> 2],
     [card_key |-> <<"k", "a", "t", "a", "n", "a">>, slot |-> 2],
     [card_key |-> <<"g", "r", "i", "f", "f", "e">>, slot |-> 2],
     [card_key |-> <<"t", "a", "l", "o", "n">>, slot |-> 2],
     [card_key |-> <<"c", "o", "b", "r", "a">>, slot |-> 2],
     [card_key |-> <<"f", "o", "r", "g", "e">>, slot |-> 2],
     [card_key |-> <<"t", "a", "c", "t", "i", "q", "u", "e">>, slot |-> 2],
     [card_key |-> <<"t", "a", "c", "t", "i", "c", "a", "l">>, slot |-> 2],
     [card_key |-> <<"t", "i", "t", "a", "n">>, slot |-> 2],
     [card_key |-> <<"r", "a", "p", "t", "o", "r">>, slot |-> 3],
     [card_key |-> <<"c", "h", "a", "s", "s", "e", "u", "r">>, slot |-> 3],
     [card_key |-> <<"h", "u", "n", "t", "e", "r">>, slot |-> 3],
     [card_key |-> <<"e", "n", "c", "l", "u", "m", "e">>, slot |-> 3],
     [card_key |-> <<"e", "n", "c", "i", "u", "m", "e">>, slot |-> 3],
     [card_key |-> <<"e", "n", "c", "t", "u", "m", "e">>, slot |-> 3],
     [card_key |-> <<"a", "n", "v", "i", "l">>, slot |-> 3],
     [card_key |-> <<"b", "a", "l", "l", "i", "s", "t", "i", "q", "u", "e">>, slot |-> 3],
     [card_key |-> <<"b", "a", "l", "i", "s", "t", "i", "q", "u", "e">>, slot |-> 3],
     [card_key |-> <<"b", "a", "l", "l", "i", "s", "t", "i", "c">>, slot |-> 3],
     [card_key |-> <<"p", "l", "u", "m", "e">>, slot |-> 3],
     [card_key |-> <<"f", "e", "a", "t", "h", "e", "r">>, slot |-> 3],
     [card_key |-> <<"p", "i", "r", "a", "n", "h", "a">>, slot |-> 3],
     [card_key |-> <<"s", "h", "u", "r", "i", "k", "e", "n">>, slot |-> 3],
     [card_key |-> <<"h", "a", "d", "e", "s">>, slot |-> 3],
     [card_key |-> <<"h", "a", "d", "è", "s">>, slot |-> 3],
     [card_key |-> <<"m", "i", "s", "s", "i", "l", "e">>, slot |-> 4],
     [card_key |-> <<"r", "o", "c", "k", "e", "t">>, slot |-> 4],
     [card_key |-> <<"a", "r", "a">>, slot |-> 4],
     [card_key |-> <<"m", "a", "c", "a", "w">>, slot |-> 4],
     [card_key |-> <<"k", "o", "d", "i", "a", "k">>, slot |-> 4],
     [card_key |-> <<"b", "o", "u", "c", "l", "i", "e", "r">>, slot |-> 4],
     [card_key |-> <<"s", "h", "i", "e", "l", "d">>, slot |-> 4],
     [card_key |-> <<"t", "o", "m", "a", "h", "a", "w", "k">>, slot |-> 4],
     [card_key |-> <<"p", "i", "r", "a", "t", "e">>, slot |-> 4],
     [card_key |-> <<"j", "o", "l", "l", "y">>, slot |-> 4],
     [card_key |-> <<"k", "o", "i">>, slot |-> 4],
     [card_key |-> <<"k", "o", "ï">>, slot |-> 4],
     [card_key |-> <<"g", "l", "a", "d", "i", "a", "t", "e", "u", "r">>, slot |-> 4],
     [card_key |-> <<"g", "l", "a", "d", "i", "a", "t", "o", "r">>, slot |-> 4],
     [card_key |-> <<"v", "e", "g", "a", "n", "e">>, slot |-> 5],
     [card_key |-> <<"v", "é", "g", "a", "n", "e">>, slot |-> 5],
     [card_key |-> <<"v", "e", "g", "a", "n">>, slot |-> 5],
     [card_key |-> <<"a", "n", "t", "i", "o", "x", "y", "d", "a", "n", "t", "s">>, slot |-> 5],
     [card_key |-> <<"a", "n", "t", "i", "o", "x", "i", "d", "a", "n", "t", "s">>, slot |-> 5],
     [card_key |-> <<"h", "y", "d", "r", "a", "t", "a", "t", "i", "o", "n">>, slot |-> 5],
     [card_key |-> <<"e", "n", "e", "r", "g", "i", "e">>, slot |-> 5],
     [card_key |-> <<"é", "n", "e", "r", "g", "i", "e">>, slot |-> 5],
     [card_key |-> <<"e", "n", "e", "r", "g", "y">>, slot |-> 5],
     [card_key |-> <<"p", "r", "o", "t", "e", "i", "n", "e">>, slot |-> 5],
     [card_key |-> <<"p", "r", "o", "t", "é", "i", "n", "e">>, slot |-> 5],
     [card_key |-> <<"p", "r", "o", "t", "e", "i", "n">>, slot |-> 5],
     [card_key |-> <<"m", "a", "c", "r", "o", "b", "i", "o", "t", "i", "q", "u", "e">>, slot |-> 5],
     [card_key |-> <<"m", "a", "c", "r", "o", "b", "i", "o", "t", "i", "c">>, slot |-> 5],
     [card_key |-> <<"c", "e", "t", "o", "g", "e", "n", "e">>, slot |-> 5],
     [card_key |-> <<"c", "é", "t", "o", "g", "è", "n", "e">>, slot |-> 5],
     [card_key |-> <<"k", "e", "t", "o">>, slot |-> 5],
     [card_key |-> <<"g", "l", "u", "c", "i", "d", "e", "s">>, slot |-> 5],
     [card_key |-> <<"c", "a", "r", "b", "o", "l", "o", "a", "d">>, slot |-> 5],
     [card_key |-> <<"p", "l", "i", "o", "m", "e", "t", "r", "i", "e">>, slot |-> 6],
     [card_key |-> <<"p", "l", "i", "o", "m", "é", "t", "r", "i", "e">>, slot |-> 6],
     [card_key |-> <<"p", "l", "y", "o", "m", "e", "t", "r", "i", "c", "s">>, slot |-> 6],
     [card_key |-> <<"m", "u", "s", "c", "u", "l", "a", "t", "i", "o", "n">>, slot |-> 6],
     [card_key |-> <<"w", "e", "i", "g", "h", "t">>, slot |-> 6],
     [card_key |-> <<"l", "i", "f", "t", "i", "n", "g">>, slot |-> 6],
     [card_key |-> <<"e", "n", "d", "u", "r", "a", "n", "c", "e">>, slot |-> 6],
     [card_key |-> <<"a", "l", "p", "i", "n", "i", "s", "m", "e">>, slot |-> 6],
     [card_key |-> <<"m", "o", "u", "n", "t", "a", "i", "n">>, slot |-> 6],
     [card_key |-> <<"c", "l", "i", "m", "b", "e", "r">>, slot |-> 6],
     [card_key |-> <<"v", "i", "t", "e", "s", "s", "e">>, slot |-> 6],
     [card_key |-> <<"s", "p", "r", "i", "n", "t">>, slot |-> 6],
     [card_key |-> <<"h", "a", "l", "t", "e", "r", "o", "p", "h", "i", "l", "i", "e">>, slot |-> 6],
     [card_key |-> <<"h", "a", "l", "t", "é", "r", "o", "p", "h", "i", "l", "i", "e">>, slot |-> 6],
     [card_key |-> <<"p", "o", "w", "e", "r", "l", "i", "f", "t", "i", "n", "g">>, slot |-> 6],
     [card_key |-> <<"e", "l", "a", "s", "t", "i", "q", "u", "e">>, slot |-> 6],
     [card_key |-> <<"é", "l", "a", "s", "t", "i", "q", "u", "e">>, slot |-> 6],
     [card_key |-> <<"r", "e", "s", "i", "s", "t", "a", "n", "c", "e">>, slot |-> 6],
     [card_key |-> <<"f", "e", "n", "t", "e", "s">>, slot |-> 6],
     [card_key |-> <<"l", "u", "n", "g", "e", "s">>, slot |-> 6] >>

\* corrections of OCR misreadings for display
CANONICAL_NAMES(card_key) ==
  IF card_key \in {<<"e", "n", "c", "i", "u", "m", "e">>,
                   <<"e", "n", "c", "t", "u", "m", "e">>}
  THEN <<"E", "n", "c", "l", "u", "m", "e">>
  ELSE capitalize(card_key)

\* a card name that is None
NoName == << >>

\* mutant: a key counts as found when its first letter occurs in the text
initial_in_text(card_normalized, text_normalized) ==
  \E i \in 1..Len(text_normalized) : text_normalized[i] = card_normalized[1]

\* card_normalized in text_normalized
name_in_text(card_normalized, text_normalized) ==
  Contains(card_normalized, text_normalized)

\* the first key of CARD_TO_SLOT, in insertion order, that contains the name or
\* is contained in it; 0 if there is none
FirstKey(name) ==
  LET hits == { k \in 1..Len(CARD_TO_SLOT) :
                  LET card_normalized == normalize(CARD_TO_SLOT[k].card_key) IN
                  Contains(card_normalized, name) \/ Contains(name, card_normalized) }
  IN IF hits = {} THEN 0 ELSE CHOOSE k \in hits : \A o \in hits : k <= o

\* for name, level_str in matches: names followed by a level between 8 and 20
RECURSIVE cards_with_level(_, _)
cards_with_level(found_equipment, matches) ==
  IF matches = << >> THEN found_equipment
  ELSE LET level == int(Head(matches).level_str)
           k == FirstKey(Head(matches).name)
       IN IF level \notin 8..20 \/ k = 0
             \/ CARD_TO_SLOT[k].slot \in DOMAIN found_equipment
          THEN cards_with_level(found_equipment, Tail(matches))
          ELSE cards_with_level(
                 found_equipment @@
                   (CARD_TO_SLOT[k].slot :>
                      [name |-> CANONICAL_NAMES(CARD_TO_SLOT[k].card_key),
                       level |-> level]),
                 Tail(matches))

\* for card_key, slot in CARD_TO_SLOT.items(): names without a level; the keys
\* are visited in the order of the table and a slot once filled is skipped, so
\* each free slot takes the first key of that slot whose name is in the text
cards_alone(found_equipment, text_normalized) ==
  LET named(slot) ==
        {k \in 1..Len(CARD_TO_SLOT) :
           /\ CARD_TO_SLOT[k].slot = slot
           /\ name_in_text(normalize(CARD_TO_SLOT[k].card_key), text_normalized)}
      free == {CARD_TO_SLOT[k].slot : k \in 1..Len(CARD_TO_SLOT)}
                \ DOMAIN found_equipment
      filled == {slot \in free : named(slot) # {}}
  IN found_equipment @@
       [slot \in filled |->
          LET k == CHOOSE f \in named(slot) : \A o \in named(slot) : f <= o
          IN [name |-> CANONICAL_NAMES(CARD_TO_SLOT[k].card_key),
              level |-> None]]

\* the resolver: slot -> (name, level) for the cards named in the OCR text
resolve_cards(text_cards) ==
  LET text_normalized == normalize(lower(text_cards))
      text_cleaned == remove_progress(text_normalized)
  IN cards_alone(cards_with_level(<< >>, findall(text_cleaned, 1)),
                 text_normalized)

\* the levels read zone by zone complete the cards found by name
with_zone_levels(found_equipment, detected_levels) ==
  [slot \in (DOMAIN found_equipment \cup (DOMAIN detected_levels \cap 1..6)) |->
     IF slot \notin DOMAIN detected_levels THEN found_equipment[slot]
     ELSE IF slot \notin DOMAIN found_equipment
          THEN [name |-> NoName, level |-> detected_levels[slot]]
     ELSE IF found_equipment[slot].level = None
          THEN [found_equipment[slot] EXCEPT !.level = detected_levels[slot]]
     ELSE found_equipment[slot]]

\* ------------------------------------------------ extraction: the engine
total_fields == 22

ExtractedEquipment(slot) == [slot |-> slot, card_name |-> NoName, card_level |-> None]

\* ExtractedStats(): the dataclass defaults; confidence counts in 1/total_fields
ExtractedStats ==
  [character_name |-> NoneStr, character_level |-> None, points |-> None,
   global_power |-> None, agility |-> None, endurance |-> None, serve |-> None,
   volley |-> None, forehand |-> None, backhand |-> None,
   equipment |-> << >>, confidence |-> 0, warnings |-> << >>]

\* stat_patterns, in the order of the dict
StatAttrs == <<"global_power", "agility", "endurance", "serve", "volley",
               "forehand", "backhand">>

Warn(result, warning) == [result EXCEPT !.warnings = Append(@, warning)]

\* extract_stats_v2 either returns a result or raises
Return(result) == [raised |-> FALSE, result |-> result]
Raise(result) == [raised |-> TRUE, result |-> result]

\* if not os.path.exists(image_path)
image_missing(result) == Return(Warn(result, "Image non trouvee"))

\* if image is None (cv2.imread could not decode the file)
image_unreadable(result) == Return(Warn(result, "Impossible de lire l'image"))

\* mutant: the exception leaves extract_stats_v2
on_exception_reraise(result) == Raise(result)

\* except Exception as e, whatever had been extracted before
on_exception(result) == Return(Warn(result, "Erreur"))

\* the name/points patterns on the OCR text of the first pass
with_name(result, name_match) ==
  CASE name_match = "name_points" ->
         [result EXCEPT !.character_name = "Mei-Li", !.points = 1770]
    [] name_match = "name_only" ->
         Warn([result EXCEPT !.character_name = "Mei-Li"], "Points non detectes")
    [] OTHER -> result

\* for attr, pattern in stat_patterns.items(), from the k-th attribute on;
\* stat_match[attr] is the number the pattern captured, None without a match
RECURSIVE with_stats(_, _, _)
with_stats(result, stat_match, k) ==
  IF k > Len(StatAttrs) THEN result
  ELSE LET attr == StatAttrs[k]
           value == stat_match[attr]
       IN with_stats(
            IF value = None THEN Warn(result, "non detecte")
            ELSE IF 1 <= value /\ value <= 999
                 THEN [result EXCEPT ![attr] = value]
            ELSE Warn(result, "valeur hors limite"),
            stat_match, k + 1)

\* assemble the six ExtractedEquipment, slot 1 to 6
with_equipment(result, found_equipment) ==
  [result EXCEPT !.equipment =
     [slot \in 1..6 |->
        IF slot \in DOMAIN found_equipment
        THEN [slot |-> slot, card_name |-> found_equipment[slot].name,
              card_level |-> found_equipment[slot].level]
        ELSE ExtractedEquipment(slot)]]

\* found_count as the code accumulates it
found_count(result) ==
  Cardinality({f \in {"character_name"} : result[f] # NoneStr})
  + Cardinality({f \in {"points", "character_level"} \cup
                       {StatAttrs[k] : k \in 1..Len(StatAttrs)} : result[f] # None})
  + Cardinality({i \in 1..Len(result.equipment) :
                   result.equipment[i].card_name # NoName})
  + Cardinality({i \in 1..Len(result.equipment) :
                   result.equipment[i].card_level \notin {None, 0}})

\* img describes the file and what the OCR passes read from it:
\*   exists        os.path.exists(image_path)
\*   imread        "image", "none" (undecodable) or "raises"
\*   name_match    which of the name patterns matches the first-pass text
\*   stat_match    the number captured for each attribute
\*   detected_levels  the levels read zone by zone (0 stands for "perso")
\*   text_cards    the text of the three equipment passes
\*   error_at      where a cv2 / filesystem call raises: "none", "stats"
\*                 (before the first pass), "equipment" (second pass) or
\*                 "archive" (_save_failed_detection)
extract_stats_v2(img) ==
  LET result == ExtractedStats IN
  IF ~img.exists THEN image_missing(result)
  ELSE IF img.imread = "raises" THEN on_exception(result)
  ELSE IF img.imread = "none" THEN image_unreadable(result)
  ELSE IF img.error_at = "stats" THEN on_exception(result)
  ELSE
    LET stats == with_stats(with_name(result, img.name_match), img.stat_match, 1) IN
    IF img.error_at = "equipment" THEN on_exception(stats)
    ELSE
      LET leveled == IF 0 \in DOMAIN img.detected_levels
                     THEN [stats EXCEPT !.character_level = img.detected_levels[0]]
                     ELSE stats
          found_equipment == with_zone_levels(resolve_cards(img.text_cards),
                                              img.detected_levels)
          assembled == with_equipment(leveled, found_equipment)
          scored == [assembled EXCEPT !.confidence = found_count(assembled)]
      IN IF 10 * scored.confidence < 7 * total_fields /\ img.error_at = "archive"
         THEN on_exception(scored)
         ELSE Return(scored)

Extract ==
  /\ image # NoImage
  /\ extracted = NotExtracted
  /\ extracted' = extract_stats_v2(image)
  /\ UNCHANGED <<rows, now, notified, captures, pc, todo, sel, player_stats,
                 player_equipment, created, image, wrapper, utils, last>>

\* sample readings
NoStats == [attr \in {StatAttrs[k] : k \in 1..Len(StatAttrs)} |-> None]
AllStats == [attr \in {StatAttrs[k] : k \in 1..Len(StatAttrs)} |-> 98]
StatMatches == {NoStats, AllStats, [AllStats EXCEPT !.serve = 0, !.volley = None]}
ZoneLevels == {<< >>, (0 :> 14), [slot \in 0..6 |-> 12]}
CardTexts ==
  { << >>,
    <<"l", "a", " ", "P", "a", "n", "t", "h", "è", "r", "e", " ", "1", "2", "\n",
      "1", "1", "/", "5", "0", "0", "\n", "K", "a", "t", "a", "n", "a">>,
    <<"Z", "e", "u", "s", ":", "1", "1", " ", "T", "i", "t", "a", "n", " ", "9", " ",
      "H", "a", "d", "e", "s", " ", "1", "0", " ", "K", "o", "i", " ", "1", "2", " ",
      "K", "e", "t", "o", " ", "8", " ", "S", "p", "r", "i", "n", "t", " ", "2", "0">> }

Image(exists, imread, name_match, stat_match, detected_levels, text_cards, error_at) ==
  [exists |-> exists, imread |-> imread, name_match |-> name_match,
   stat_match |-> stat_match, detected_levels |-> detected_levels,
   text_cards |-> text_cards, error_at |-> error_at]

LibInit ==
  /\ rows = << >>
  /\ now = 0
  /\ notified = {}
  /\ captures = [w \in Workers |-> << >>]
  /\ pc = [p \in Passes |-> "idle"]
  /\ todo = [p \in Passes |-> << >>]
  /\ sel = [p \in Passes |-> << >>]
  /\ player_stats = << >>
  /\ player_equipment = {}
  /\ created = {}
  /\ last = Quiet

ExtractInit ==
  /\ LibInit
  /\ wrapper = NotCalled
  /\ UtilsIdle
  /\ extracted = NotExtracted
  /\ \E exists \in BOOLEAN, imread \in {"image", "none", "raises"},
        name_match \in {"name_points", "name_only", "none"},
        stat_match \in StatMatches, detected_levels \in ZoneLevels,
        text_cards \in CardTexts,
        error_at \in {"none", "stats", "equipment", "archive"} :
       image = Image(exists, imread, name_match, stat_match, detected_levels,
                     text_cards, error_at)

ExtractSpec == ExtractInit /\ [][Extract]_vars

\* the resolver on its own: the text is a catalog name, as printed or
\* capitalised, alone or with an article, a level and a progress bar
Level12 == <<" ", "1", "2">>
Level5Bar == <<":", " ", "5", "\n", "1", "1", "/", "5", "0", "0">>
CatalogTexts(card_key) ==
  { card_key,
    capitalize(card_key),
    card_key \o Level12,
    <<"l", "a", " ">> \o capitalize(card_key) \o Level12,
    capitalize(card_key) \o Level5Bar }

ResolverInit ==
  /\ LibInit
  /\ wrapper = NotCalled
  /\ UtilsIdle
  /\ extracted = NotExtracted
  /\ \E k \in 1..Len(CARD_TO_SLOT) :
       \E text_cards \in CatalogTexts(CARD_TO_SLOT[k].card_key) :
         image = Image(TRUE, "image", "none", NoStats, << >>, text_cards, "none")

ResolverSpec == ResolverInit /\ [][Extract]_vars

\* ------------------------------------------------------------------ retry
\* Exceptions carry the number of the invocation that raised them.
ValueError(n) == [type |-> "ValueError", raised_by |-> n]      \* in `exceptions`
TypeError(n) == [type |-> "TypeError", raised_by |-> n]        \* not in `exceptions`
RuntimeError == [type |-> "RuntimeError", raised_by |-> 0]
NoException == [type |-> NoneStr, raised_by |-> 0]

\* what an invocation of the wrapped function can return
ReturnValues == {"success", NoneStr}

Returned(value) == [kind |-> "return", value |-> value, exc |-> NoException]
Raised(exc) == [kind |-> "raise", value |-> NoneStr, exc |-> exc]

\* a call of the wrapper that has not entered the loop yet
NewCall(max_attempts, is_async, on_retry) ==
  [max_attempts |-> max_attempts, is_async |-> is_async, on_retry |-> on_retry,
   attempt |-> 1, last_exception |-> NoException, invoked |-> << >>,
   retried |-> 0, pc |-> "loop", outcome |-> Returned(NoneStr)]

RetryInit ==
  /\ LibInit
  /\ image = NoImage
  /\ extracted = NotExtracted
  /\ UtilsIdle
  /\ \E max_attempts \in 0..MaxAttempts, is_async, on_retry \in BOOLEAN :
       wrapper = NewCall(max_attempts, is_async, on_retry)

\* mutant: one iteration more than range(1, max_attempts + 1)
in_range_one_more(attempt, max_attempts) == attempt \in 1..(max_attempts + 1)

\* for attempt in range(1, max_attempts + 1)
in_range(attempt, max_attempts) == attempt \in 1..max_attempts

\* mutant: the error raised after the loop is not the captured exception
raise_runtime_error(last_exception) == RuntimeError

\* the raise that follows the loop
raise_after_loop(last_exception) ==
  IF last_exception # NoException THEN last_exception ELSE RuntimeError

Invoking == wrapper # NotCalled /\ wrapper.pc = "loop"
            /\ in_range(wrapper.attempt, wrapper.max_attempts)

\* try: return func(*args, **kwargs)
FuncReturns(value) ==
  /\ Invoking
  /\ wrapper' = [wrapper EXCEPT !.invoked = Append(@, Returned(value)),
                                !.pc = "returned",
                                !.outcome = Returned(value)]
  /\ UNCHANGED <<rows, now, notified, captures, pc, todo, sel, player_stats,
                 player_equipment, created, image, extracted, utils, last>>

\* except exceptions as e: remember it; before the last attempt call on_retry
\* (if given) and sleep, on the last attempt fall out of the loop
FuncRaisesListed ==
  LET e == ValueError(Len(wrapper.invoked) + 1) IN
  /\ Invoking
  /\ wrapper' = [wrapper EXCEPT
       !.invoked = Append(@, Raised(e)),
       !.last_exception = e,
       !.retried = IF wrapper.attempt < wrapper.max_attempts /\ wrapper.on_retry
                   THEN @ + 1 ELSE @,
       !.pc = IF wrapper.attempt < wrapper.max_attempts THEN "sleep" ELSE "loop",
       !.attempt = IF wrapper.attempt < wrapper.max_attempts THEN @ ELSE @ + 1]
  /\ UNCHANGED <<rows, now, notified, captures, pc, todo, sel, player_stats,
                 player_equipment, created, image, extracted, utils, last>>

\* mutant: every exception is caught (except Exception), a TypeError is retried
FuncRaisesUnlistedCaught ==
  LET e == TypeError(Len(wrapper.invoked) + 1) IN
  /\ Invoking
  /\ wrapper' = [wrapper EXCEPT
       !.invoked = Append(@, Raised(e)),
       !.last_exception = e,
       !.retried = IF wrapper.attempt < wrapper.max_attempts /\ wrapper.on_retry
                   THEN @ + 1 ELSE @,
       !.pc = IF wrapper.attempt < wrapper.max_attempts THEN "sleep" ELSE "loop",
       !.attempt = IF wrapper.attempt < wrapper.max_attempts THEN @ ELSE @ + 1]
  /\ UNCHANGED <<rows, now, notified, captures, pc, todo, sel, player_stats,
                 player_equipment, created, image, extracted, utils, last>>

\* an exception outside `exceptions` leaves the wrapper at once
FuncRaisesUnlisted ==
  LET e == TypeError(Len(wrapper.invoked) + 1) IN
  /\ Invoking
  /\ wrapper' = [wrapper EXCEPT !.invoked = Append(@, Raised(e)),
                                !.pc = "raised",
                                !.outcome = Raised(e)]
  /\ UNCHANGED <<rows, now, notified, captures, pc, todo, sel, player_stats,
                 player_equipment, created, image, extracted, utils, last>>

\* time.sleep(wait_time) or await asyncio.sleep(wait_time) is over
SleepOver ==
  /\ wrapper # NotCalled
  /\ wrapper.pc = "sleep"
  /\ wrapper' = [wrapper EXCEPT !.pc = "loop", !.attempt = @ + 1]
  /\ UNCHANGED <<rows, now, notified, captures, pc, todo, sel, player_stats,
                 player_equipment, created, image, extracted, utils, last>>

\* the loop is over without a return
LoopOver ==
  /\ wrapper # NotCalled
  /\ wrapper.pc = "loop"
  /\ ~in_range(wrapper.attempt, wrapper.max_attempts)
  /\ wrapper' = [wrapper EXCEPT
       !.pc = "raised",
       !.outcome = Raised(raise_after_loop(wrapper.last_exception))]
  /\ UNCHANGED <<rows, now, notified, captures, pc, todo, sel, player_stats,
                 player_equipment, created, image, extracted, utils, last>>

\* sync_wrapper and async_wrapper run the same loop; is_async only tells which
\* sleep separates two attempts
RetryNext ==
  \/ \E value \in ReturnValues : FuncReturns(value)
  \/ FuncRaisesListed
  \/ FuncRaisesUnlisted
  \/ SleepOver
  \/ LoopOver

RetrySpec == RetryInit /\ [][RetryNext]_vars

\* ------------------------------------------------------------------ cache
\* TTLCache._cache is a dict: a sequence of entries in insertion order (the
\* order sorted() starts from); assigning to a key it holds keeps its place.
\* Keys are the numbers the key function formats ("key:1"); datetime.now() is
\* the clock `now`.
NumKeys == 5              \* distinct keys given to the cache
MaxSize == 4              \* largest max_size a cache is built with
MaxCalls == 3             \* executions of the wrapped function body
ttl_seconds == 2
Keys == 1..NumKeys

Entry(key, value, expires_at) ==
  [key |-> key, value |-> value, expires_at |-> expires_at]

Position(_cache, key) ==
  IF \E i \in 1..Len(_cache) : _cache[i].key = key
  THEN CHOOSE i \in 1..Len(_cache) : _cache[i].key = key
  ELSE 0

Without(_cache, positions) ==
  LET F[i \in 0..Len(_cache)] ==
        IF i = 0 THEN << >>
        ELSE IF i \in positions THEN F[i - 1] ELSE Append(F[i - 1], _cache[i])
  IN F[Len(_cache)]

\* TTLCache.delete
delete(_cache, key) == Without(_cache, {Position(_cache, key)})

\* TTLCache._cleanup_expired
_cleanup_expired(_cache, t) ==
  Without(_cache, {i \in 1..Len(_cache) : t > _cache[i].expires_at})

\* sorted(self._cache.keys(), key=expires_at)[:n]: the sort is stable
oldest_keys(_cache, n) ==
  {i \in 1..Len(_cache) :
     Cardinality({j \in 1..Len(_cache) :
                    \/ _cache[j].expires_at < _cache[i].expires_at
                    \/ _cache[j].expires_at = _cache[i].expires_at /\ j < i}) < n}

\* TTLCache.set
set(_cache, _max_size, key, value, t) ==
  LET cleaned == IF Len(_cache) >= _max_size THEN _cleanup_expired(_cache, t)
                 ELSE _cache
      kept == IF Len(cleaned) >= _max_size
              THEN Without(cleaned, oldest_keys(cleaned, Len(cleaned) \div 4))
              ELSE cleaned
      at == Position(kept, key)
  IN IF at = 0 THEN Append(kept, Entry(key, value, t + ttl_seconds))
     ELSE [kept EXCEPT ![at] = Entry(key, value, t + ttl_seconds)]

\* mutant: get answers from a stored entry whatever its age
get_expired(_cache, key, t) ==
  LET at == Position(_cache, key) IN
  IF at = 0 THEN NoneStr ELSE _cache[at].value

\* TTLCache.get: the value returned (NoneStr for None) ...
get(_cache, key, t) ==
  LET at == Position(_cache, key) IN
  IF at = 0 \/ t > _cache[at].expires_at THEN NoneStr ELSE _cache[at].value

\* ... and the dict it leaves: an expired entry is deleted
after_get(_cache, key, t) ==
  LET at == Position(_cache, key) IN
  IF at # 0 /\ t > _cache[at].expires_at THEN delete(_cache, key) ELSE _cache

\* a TTLCache, the number of executions of the function wrapped by cached on
\* it, and the calls suspended at `await func(...)`, by key
NewCache(_max_size) ==
  [_cache |-> << >>, _max_size |-> _max_size, call_count |-> 0,
   awaiting |-> [key \in Keys |-> 0]]

\* datetime.now() advances
Tick ==
  /\ now < MaxClock
  /\ now' = now + 1
  /\ last' = Quiet
  /\ UNCHANGED <<rows, notified, captures, pc, todo, sel, player_stats,
                 player_equipment, created, libs>>

\* cache.set(key, value)
Set(key, value) ==
  /\ cache # NoCache
  /\ cache' = [cache EXCEPT !._cache = set(@, cache._max_size, key, value, now)]
  /\ last' = [op |-> "set", id |-> key]
  /\ UNCHANGED <<rows, now, notified, captures, pc, todo, sel, player_stats,
                 player_equipment, created, image, extracted, wrapper, limiter,
                 answer, database>>

TTLCacheInit ==
  /\ LibInit
  /\ image = NoImage
  /\ extracted = NotExtracted
  /\ wrapper = NotCalled
  /\ limiter = NoLimiter
  /\ answer = NoAnswer
  /\ database = NoDatabase
  /\ \E _max_size \in 0..MaxSize : cache = NewCache(_max_size)

TTLCacheNext ==
  \/ \E key \in Keys : Set(key, "data")
  \/ Tick

TTLCacheSpec == TTLCacheInit /\ [][TTLCacheNext]_vars

\* cached, wrapper up to `await func(...)`: a value found in the cache is
\* returned, otherwise the function body starts
CachedCall(key) ==
  LET result == get(cache._cache, key, now) IN
  /\ cache # NoCache
  /\ IF result # NoneStr
     THEN /\ cache' = [cache EXCEPT !._cache = after_get(@, key, now)]
          /\ last' = [op |-> "hit", id |-> key]
     ELSE /\ cache.call_count < MaxCalls
          /\ cache' = [cache EXCEPT !._cache = after_get(@, key, now),
                                    !.call_count = @ + 1,
                                    !.awaiting[key] = @ + 1]
          /\ last' = [op |-> "miss", id |-> key]
  /\ UNCHANGED <<rows, now, notified, captures, pc, todo, sel, player_stats,
                 player_equipment, created, image, extracted, wrapper, limiter,
                 answer, database>>

\* cached, wrapper after `await func(...)`: the result is stored unless None
FuncDone(key, result) ==
  /\ cache # NoCache
  /\ cache.awaiting[key] > 0
  /\ cache' = [cache EXCEPT
       !._cache = IF result # NoneStr
                  THEN set(@, cache._max_size, key, result, now) ELSE @,
       !.awaiting[key] = @ - 1]
  /\ last' = [op |-> "returned", id |-> key]
  /\ UNCHANGED <<rows, now, notified, captures, pc, todo, sel, player_stats,
                 player_equipment, created, image, extracted, wrapper, limiter,
                 answer, database>>

\* wrapper.invalidate
Invalidate(key) ==
  /\ cache # NoCache
  /\ cache' = [cache EXCEPT !._cache = delete(@, key)]
  /\ last' = [op |-> "invalidate", id |-> key]
  /\ UNCHANGED <<rows, now, notified, captures, pc, todo, sel, player_stats,
                 player_equipment, created, image, extracted, wrapper, limiter,
                 answer, database>>

\* a function wrapped by cached on a cache of its own
CachedInit ==
  /\ LibInit
  /\ image = NoImage
  /\ extracted = NotExtracted
  /\ wrapper = NotCalled
  /\ limiter = NoLimiter
  /\ answer = NoAnswer
  /\ database = NoDatabase
  /\ cache = NewCache(MaxSize)

CachedNext ==
  \/ \E key \in Keys : CachedCall(key)
  \/ \E key \in Keys, result \in {"data", NoneStr} : FuncDone(key, result)
  \/ \E key \in Keys : Invalidate(key)
  \/ Tick

CachedSpec == CachedInit /\ [][CachedNext]_vars

\* ------------------------------------------------------------- rate limit
MaxAllowed == 2           \* largest `calls` a limiter is built with
period == 2               \* seconds
Authors == {111, 222}     \* ctx.author.id of the users of a limited command

\* the timestamps is_limited keeps: ts > cutoff, cutoff = now - period
recent(timestamps, t) ==
  SelectSeq(timestamps, LAMBDA ts : ts > t - period)

\* mutant: limited only once the allowance is exceeded
is_limited_beyond(timestamps, calls, t) ==
  calls <= 0 \/ Len(recent(timestamps, t)) > calls

\* RateLimiter.is_limited, the flag returned
is_limited(timestamps, calls, t) ==
  calls <= 0 \/ Len(recent(timestamps, t)) >= calls

\* a RateLimiter, and for each user the times at which a limited command ran
NewLimiter(calls) ==
  [calls |-> calls, _usage |-> [user \in Authors |-> << >>],
   executed |-> [user \in Authors |-> << >>]]

\* rate_limit, wrapper: is_limited (which prunes the user's list), then either
\* the refusal or record_call and the command; no await lies between the two
Command(user) ==
  /\ limiter # NoLimiter
  /\ IF is_limited(limiter._usage[user], limiter.calls, now)
     THEN /\ limiter' = [limiter EXCEPT !._usage[user] = recent(@, now)]
          /\ last' = [op |-> "limited", id |-> user]
     ELSE /\ limiter' = [limiter EXCEPT
               !._usage[user] = Append(recent(@, now), now),
               !.executed[user] = Append(@, now)]
          /\ last' = [op |-> "executed", id |-> user]
  /\ UNCHANGED <<rows, now, notified, captures, pc, todo, sel, player_stats,
                 player_equipment, created, image, extracted, wrapper, cache,
                 answer, database>>

LimiterInit ==
  /\ LibInit
  /\ image = NoImage
  /\ extracted = NotExtracted
  /\ wrapper = NotCalled
  /\ cache = NoCache
  /\ answer = NoAnswer
  /\ database = NoDatabase
  /\ \E calls \in 0..MaxAllowed : limiter = NewLimiter(calls)

LimiterNext ==
  \/ \E user \in Authors : Command(user)
  \/ Tick

LimiterSpec == LimiterInit /\ [][LimiterNext]_vars

\* ------------------------------------------------------- response parsing
Texts == UNION {[1..n -> Tokens] : n \in 0..MaxTokens}

NewAnswer(text) == [response |-> text, parsed |-> FALSE, returned |-> NoMatch]

\* parse_json_response(response): the value returned, JSONDecodeError for the
\* exception raised after the last attempt
Parse ==
  /\ answer # NoAnswer
  /\ ~answer.parsed
  /\ answer' = [answer EXCEPT
       !.parsed = TRUE,
       !.returned = parse_json_response(ResponseOf(answer.response))]
  /\ UNCHANGED <<rows, now, notified, captures, pc, todo, sel, player_stats,
                 player_equipment, created, image, extracted, wrapper, cache,
                 limiter, database, last>>

ParseInit ==
  /\ LibInit
  /\ image = NoImage
  /\ extracted = NotExtracted
  /\ wrapper = NotCalled
  /\ cache = NoCache
  /\ limiter = NoLimiter
  /\ database = NoDatabase
  /\ \E text \in Texts : answer = NewAnswer(text)

ParseSpec == ParseInit /\ [][Parse]_vars

\* ------------------------------------------------------------- migrations
NumMigrations == 3        \* most *.sql files in the migrations directory
Runs == {"r1", "r2"}      \* calls of run_migrations, each on its own connection

\* sorted(MIGRATIONS_DIR.glob("*.sql")): files are numbered in name order
Sorted(S) == OrderBy(S, [f \in S |-> f])

\* pending = [f for f in migration_files if f.name not in applied]
pending_migrations(migration_files, applied) ==
  SelectSeq(migration_files, LAMBDA f : f \notin applied)

IdleRun == [pc |-> "idle", pending |-> << >>]

NewDatabase(files) ==
  [files |-> files,
   schema_migrations |-> {},
   committed |-> [f \in 1..NumMigrations |-> 0],
   run |-> [r \in Runs |-> IdleRun]]

\* the exception leaves "async with conn.transaction()", which rolls the
\* transaction back, and is raised again at line 98: the call is over
Rollback(r) ==
  /\ database' = [database EXCEPT !.run[r] = IdleRun]
  /\ last' = [op |-> "rollback", id |-> Head(database.run[r].pending)]

\* run_migrations up to the loop: no directory or no file returns (0, 0), a
\* database that is up to date returns (0, total)
RunStart(r) ==
  /\ database # NoDatabase
  /\ database.run[r].pc = "idle"
  /\ LET migration_files == Sorted(database.files)
         applied == database.schema_migrations
         pending == pending_migrations(migration_files, applied)
     IN database' = [database EXCEPT !.run[r] =
          IF pending = << >> THEN IdleRun
          ELSE [pc |-> "loop", pending |-> pending]]
  /\ last' = Quiet
  /\ UNCHANGED <<rows, now, notified, captures, pc, todo, sel, player_stats,
                 player_equipment, created, image, extracted, wrapper, cache,
                 limiter, answer>>

\* for migration_file in pending: async with conn.transaction()
Begin(r) ==
  /\ database # NoDatabase
  /\ database.run[r].pc = "loop"
  /\ database' = [database EXCEPT !.run[r] =
       IF database.run[r].pending = << >> THEN IdleRun
       ELSE [@ EXCEPT !.pc = "begun"]]
  /\ last' = Quiet
  /\ UNCHANGED <<rows, now, notified, captures, pc, todo, sel, player_stats,
                 player_equipment, created, image, extracted, wrapper, cache,
                 limiter, answer>>

\* mutant: the SQL of the file is committed as soon as it has run
ExecuteAutocommit(r) ==
  /\ database # NoDatabase
  /\ database.run[r].pc = "begun"
  /\ database' = [database EXCEPT
       !.run[r].pc = "executed",
       !.committed[Head(database.run[r].pending)] = @ + 1]
  /\ last' = Quiet
  /\ UNCHANGED <<rows, now, notified, captures, pc, todo, sel, player_stats,
                 player_equipment, created, image, extracted, wrapper, cache,
                 limiter, answer>>

\* await conn.execute(sql): the statements run inside the open transaction
Execute(r) ==
  /\ database # NoDatabase
  /\ database.run[r].pc = "begun"
  /\ database' = [database EXCEPT !.run[r].pc = "executed"]
  /\ last' = Quiet
  /\ UNCHANGED <<rows, now, notified, captures, pc, todo, sel, player_stats,
                 player_equipment, created, image, extracted, wrapper, cache,
                 limiter, answer>>

\* mark_as_applied: INSERT INTO schema_migrations (filename). filename is
\* UNIQUE: the insert waits while another transaction holds the same name
\* uncommitted, and fails once the name is committed
MarkAsApplied(r) ==
  /\ database # NoDatabase
  /\ database.run[r].pc = "executed"
  /\ LET filename == Head(database.run[r].pending) IN
     /\ \A o \in Runs \ {r} :
          ~(/\ database.run[o].pc = "marked"
            /\ Head(database.run[o].pending) = filename)
     /\ IF filename \in database.schema_migrations
        THEN Rollback(r)
        ELSE /\ database' = [database EXCEPT !.run[r].pc = "marked"]
             /\ last' = Quiet
  /\ UNCHANGED <<rows, now, notified, captures, pc, todo, sel, player_stats,
                 player_equipment, created, image, extracted, wrapper, cache,
                 limiter, answer>>

\* leaving "async with conn.transaction()": COMMIT of the statements of the
\* file together with its row of schema_migrations; executed += 1
Commit(r) ==
  /\ database # NoDatabase
  /\ database.run[r].pc = "marked"
  /\ LET filename == Head(database.run[r].pending) IN
     /\ database' = [database EXCEPT
          !.schema_migrations = @ \cup {filename},
          !.committed[filename] = @ + 1,
          !.run[r] = [pc |-> "loop", pending |-> Tail(@.pending)]]
     /\ last' = [op |-> "commit", id |-> filename]
  /\ UNCHANGED <<rows, now, notified, captures, pc, todo, sel, player_stats,
                 player_equipment, created, image, extracted, wrapper, cache,
                 limiter, answer>>

\* read_text, a statement of the file, the insert or the commit fails
MigrationFails(r) ==
  /\ database # NoDatabase
  /\ database.run[r].pc \in {"begun", "executed", "marked"}
  /\ Rollback(r)
  /\ UNCHANGED <<rows, now, notified, captures, pc, todo, sel, player_stats,
                 player_equipment, created, image, extracted, wrapper, cache,
                 limiter, answer>>

MigrationsInit ==
  /\ LibInit
  /\ image = NoImage
  /\ extracted = NotExtracted
  /\ wrapper = NotCalled
  /\ cache = NoCache
  /\ limiter = NoLimiter
  /\ answer = NoAnswer
  /\ \E n \in 0..NumMigrations : database = NewDatabase(1..n)

MigrationsNext ==
  \/ \E r \in Runs : RunStart(r)
  \/ \E r \in Runs : Begin(r)
  \/ \E r \in Runs : Execute(r)
  \/ \E r \in Runs : MarkAsApplied(r)
  \/ \E r \in Runs : Commit(r)
  \/ \E r \in Runs : MigrationFails(r)

MigrationsSpec == MigrationsInit /\ [][MigrationsNext]_vars


\* ================================================================ claims
LegalTransitions ==
  {<<PENDING, COMPLETED>>, <<COMPLETED, VALIDATED>>, <<COMPLETED, REJECTED>>}

\* a validation session of capture i is in progress in pass p
InSession(p, i) ==
  /\ pc[p] \in {"wait", "player_select", "build_select", "save"}
  /\ Head(todo[p]).id = i

\* C1: the only status changes of a capture are Pending->Completed,
\* Completed->Validated and Completed->Rejected.
C1_OnlyLegalTransitions ==
  [][\A i \in 1..Len(rows) :
       \/ rows'[i].status = rows[i].status
       \/ <<rows[i].status, rows'[i].status>> \in LegalTransitions]_vars

\* C2: a capture that is Validated or Rejected was Completed before: no step
\* takes a Pending capture anywhere but to Completed, and a Validated or
\* Rejected capture carries the processed_at of its completion.
C2_CompletedFirst ==
  /\ [][\A i \in 1..Len(rows) :
          rows[i].status = PENDING => rows'[i].status \in {PENDING, COMPLETED}]_vars
  /\ [](\A i \in 1..Len(rows) :
          rows[i].status \in {VALIDATED, REJECTED} => rows[i].processed_at # None)

C2_Witness ==
  /\ last.op \in {"validated", "reject"}
  /\ rows[last.id].status \in {VALIDATED, REJECTED}

\* C3: the worker's completion write leaves a row that is not Pending unchanged.
C3_CompletionGuarded ==
  [][(last'.op = "completed" /\ rows[last'.id].status # PENDING)
       => rows'[last'.id] = rows[last'.id]]_vars

\* C4: the validate and reject writes leave the status and validated_at of a
\* row that is not Completed unchanged.
C4_DecisionGuarded ==
  [][(/\ last'.op \in {"validated", "unchanged", "reject", "no_player"}
      /\ rows[last'.id].status # COMPLETED)
       => /\ rows'[last'.id].status = rows[last'.id].status
          /\ rows'[last'.id].validated_at = rows[last'.id].validated_at]_vars

\* C5: at most one validation session waits for a decision on a capture id.
C5_SingleSession ==
  \A p, q \in Passes :
    (p # q /\ pc[p] = "wait" /\ pc[q] = "wait")
      => Head(todo[p]).id # Head(todo[q]).id

\* C6: when the prompt of a capture is sent its stored status is Completed.
C6_PromptOnlyCompleted ==
  last.op = "prompt" => rows[last.id].status = COMPLETED

\* C7: when a prompt times out the notified marker of its capture is cleared.
C7_TimeoutClearsMarker ==
  last.op = "timeout" => last.id \notin notified

\* C8: a prompt that times out changes no row of capture_queue, player_stats
\* or player_equipment; a Completed capture stays Completed.
C8_TimeoutChangesNothing ==
  [][last'.op = "timeout"
       => /\ rows' = rows
          /\ player_stats' = player_stats
          /\ player_equipment' = player_equipment]_vars

C8_Witness ==
  /\ last.op = "timeout"
  /\ rows[last.id].status = COMPLETED
  /\ rows[last.id].result_json # Null

\* C9: a failed extraction leaves the table as it was, a Pending row has no
\* result and no processed_at, and no row is ever Failed.
C9_FailureLeavesPending ==
  /\ [][last'.op = "extraction_failed" => rows' = rows]_vars
  /\ [](\A i \in 1..Len(rows) :
          /\ rows[i].status # FAILED
          /\ rows[i].status = PENDING
               => rows[i].result_json = Null /\ rows[i].processed_at = None)

C9_Witness ==
  /\ last.op = "extraction_failed"
  /\ rows[last.id].status = PENDING
  /\ \E w \in Workers : captures[w] = << >>

\* C10: a Completed capture that is not marked notified eventually has a
\* validation session, whatever its result (checked with a poller that keeps
\* running and a submitter who can be reached).
C10_EventuallyOffered ==
  \A i \in 1..MaxCaptures :
    (i <= Len(rows) /\ rows[i].status = COMPLETED /\ i \notin notified)
      ~> (\E p \in Passes : InSession(p, i))

\* trophy points, global power and the six attributes of a decoded result
ResultValues(result) ==
  LET stats == IF "stats" \in DOMAIN result THEN result.stats ELSE << >>
  IN <<Get(result, "points"), Get(result, "global_power"),
       Get(stats, "agility"), Get(stats, "endurance"), Get(stats, "serve"),
       Get(stats, "volley"), Get(stats, "forehand"), Get(stats, "backhand")>>

\* this step is pass p completing the validation of its current capture
Validates(p) ==
  /\ pc[p] = "save"
  /\ last'.op \in {"validated", "unchanged"}
  /\ last'.id = Head(todo[p]).id
  /\ todo'[p] = Tail(todo[p])
  /\ pc'[p] # "save"

C12_DifferentAppendsOne ==
  [][\A p \in Passes :
       LET capture == Head(todo[p])
           prev == sel[p][1].last_stats
           n == Len(player_stats)
       IN (/\ Validates(p)
           /\ \/ prev = << >>
              \/ ResultValues(capture.result_json[1]) # SnapshotValues(prev[1]))
            => /\ Len(player_stats') = n + 1
               /\ SubSeq(player_stats', 1, n) = player_stats
               /\ SnapshotValues(player_stats'[n + 1])
                    = ResultValues(capture.result_json[1])
               /\ rows'[capture.id].status = VALIDATED]_vars

C12_Witness ==
  /\ last.op = "validated"
  /\ rows[last.id].status = VALIDATED
  /\ Len(player_stats) = 2
  /\ SnapshotValues(player_stats[1]) # SnapshotValues(player_stats[2])

\* two snapshots belong to the same (player, character, build) history
SameTriple(a, b) ==
  /\ a.player_id = b.player_id
  /\ Lower(a.character_name) = Lower(b.character_name)
  /\ a.build_type = b.build_type

\* C13: in the history of a (player, character, build) triple no snapshot has
\* the trophy points, global power and six attributes of the one before it.
C13_NoConsecutiveDuplicates ==
  \A i, j \in 1..Len(player_stats) :
    (/\ i < j
     /\ SameTriple(player_stats[i], player_stats[j])
     /\ \A k \in (i + 1)..(j - 1) : ~SameTriple(player_stats[i], player_stats[k]))
      => SnapshotValues(player_stats[i]) # SnapshotValues(player_stats[j])

\* C14: is_same_as answers True exactly when other is present and trophy
\* points, global power and the six attributes are pairwise equal, a missing
\* value being equal only to a missing value; no other attribute matters.
C14_IsSameExactly ==
  last.op = "is_same_as"
    => (last.id = 1 <=>
          /\ Len(player_stats) = 2
          /\ \A k \in 1..8 :
               SnapshotValues(player_stats[1])[k] = SnapshotValues(player_stats[2])[k])

C14_Witness ==
  /\ last.op = "is_same_as"
  /\ last.id = 1
  /\ Len(player_stats) = 2
  /\ player_stats[1].character_name # player_stats[2].character_name

\* C15: a refusal marks the capture Rejected and leaves player_stats and
\* player_equipment as they were, whatever the extracted result.
C15_RejectPersistsNothing ==
  [][last'.op = "reject"
       => /\ rows'[last'.id].status = REJECTED
          /\ player_stats' = player_stats
          /\ player_equipment' = player_equipment]_vars

C15_Witness ==
  /\ last.op = "reject"
  /\ rows[last.id].status = REJECTED
  /\ Len(player_stats) = 1
  /\ player_equipment # {}

\* C16: validating a capture without player or build whose submitter has no
\* registered player ends with the "no registered player" message, marks the
\* capture Rejected and appends no snapshot.
C16_NoPlayerRejects ==
  [][last'.op = "no_player"
       => /\ rows[last'.id].player_id = None \/ rows[last'.id].build_type = NoneStr
          /\ rows'[last'.id].status = REJECTED
          /\ player_stats' = player_stats
          /\ player_equipment' = player_equipment]_vars

C16_Witness ==
  /\ last.op = "no_player"
  /\ rows[last.id].status = REJECTED
  /\ rows[last.id].player_id = None
  /\ player_stats = << >>

\* C17: the rows a pass still has to consider are in submission order,
\* oldest first, whatever the order in which they were analysed.
C17_SubmissionOrder ==
  \A p \in Passes : \A k, l \in 1..Len(todo[p]) :
    k < l => rows[todo[p][k].id].submitted_at <= rows[todo[p][l].id].submitted_at

\* a step of the poller that no user's answer and no view timeout has to precede
PollerStep ==
  \E p \in Passes :
    \/ PassStart(p)
    \/ SkipNotified(p)
    \/ NotifyCached(p, TRUE)
    \/ LookupUser(p)
    \/ LookupFound(p, TRUE)
    \/ LookupNotFound(p)

\* capture j is Completed and no prompt has been sent for it
Unoffered(j) ==
  /\ rows[j].status = COMPLETED
  /\ j \notin notified
  /\ \A p \in Passes : ~InSession(p, j)

\* C18: once the startup check has returned, while the loop's session waits
\* for the decision on one capture and another user's Completed capture has
\* not been offered, the poller can take a step of its own: the other session
\* does not have to wait for an answer or a timeout.
C18_NotSerialized ==
  \A i, j \in Ids :
    (/\ rows[i].discord_user_id # rows[j].discord_user_id
     /\ pc["initial"] = "finished"
     /\ pc["loop"] = "wait" /\ Head(todo["loop"]).id = i
     /\ Unoffered(j))
      => ENABLED PollerStep

\* C19 as stated: the count in the reply is the number of Pending rows and the
\* new row is one of them.
C19_CountIncludesNew ==
  last.op = "queued"
    => /\ last.pending = Cardinality({i \in Ids : rows[i].status = PENDING})
       /\ rows[last.id].status = PENDING

\* C19, amended: a submission appends exactly one row, which is Pending, and
\* so adds one to the number of Pending rows; the count in the reply is the
\* number of Pending rows at the time it is taken, which includes the new row
\* if no worker has completed it yet.
C19_SubmitAddsOnePending ==
  /\ [][Len(rows') # Len(rows)
          => /\ Len(rows') = Len(rows) + 1
             /\ SubSeq(rows', 1, Len(rows)) = rows
             /\ rows'[Len(rows')].status = PENDING
             /\ Cardinality({i \in 1..Len(rows') : rows'[i].status = PENDING})
                  = Cardinality({i \in Ids : rows[i].status = PENDING}) + 1]_vars
  /\ [](last.op = "queued"
          => /\ last.pending = Cardinality({i \in Ids : rows[i].status = PENDING})
             /\ rows[last.id].status = PENDING => last.pending >= 1)

C19_Witness ==
  /\ last.op = "queued"
  /\ last.pending = 1
  /\ rows[last.id].status = PENDING
  /\ \E w \in Workers : captures[w] # << >>

\* C20: the completion of a Pending capture makes it Completed, sets
\* processed_at to the time of the write and stores the decoded result; its
\* id, submitter, player, build, image and submitted_at stay as they were.
C20_CompletionOfPending ==
  [][(last'.op = "completed" /\ rows[last'.id].status = PENDING)
       => LET old == rows[last'.id]
              new == rows'[last'.id]
          IN /\ new.status = COMPLETED
             /\ new.processed_at = now' /\ new.processed_at # None
             /\ \E r \in Results \cup {ResultB} : new.result_json = <<r>>
             /\ \A j \in Ids \ {old.id} : rows'[j] = rows[j]
             /\ new.id = old.id
             /\ new.discord_user_id = old.discord_user_id
             /\ new.player_id = old.player_id
             /\ new.build_type = old.build_type
             /\ new.image_data = old.image_data
             /\ new.submitted_at = old.submitted_at]_vars

C20_Witness ==
  /\ last.op = "completed"
  /\ rows[last.id].status = COMPLETED
  /\ rows[last.id].result_json = <<ResultA>>
  /\ rows[last.id].processed_at = now
  /\ rows[last.id].player_id # None

\* C21: a Completed or Validated capture has a stored extraction result; the
\* validate write leaves the result the worker stored.
C21_ResultKept ==
  \A i \in Ids :
    rows[i].status \in {COMPLETED, VALIDATED} => rows[i].result_json # Null
\* C22: a save that leaves the capture short of Validated (the snapshot insert,
\* the equipment insert or the Validated write failed) ends on the error
\* message; the success message comes only with the snapshot and its equipment
\* stored and the capture Validated, the no-change message only with the capture
\* Validated and nothing appended.
C22_ErrorShownOnFailedSave ==
  [][\A p \in Passes :
       (pc[p] = "save" /\ pc'[p] # "save") =>
         LET capture == Head(todo[p])
             result == capture.result_json[1]
         IN
         /\ last'.op \in {"validated", "unchanged", "save_error"}
         /\ last'.id = capture.id
         /\ rows'[capture.id].status # VALIDATED => last'.op = "save_error"
         /\ last'.op = "validated" =>
              /\ rows'[capture.id].status = VALIDATED
              /\ Len(player_stats') = Len(player_stats) + 1
              /\ SubSeq(player_stats', 1, Len(player_stats)) = player_stats
              /\ player_equipment' =
                   create_many(player_equipment, Len(player_stats) + 1, result)
         /\ last'.op = "unchanged" =>
              /\ rows'[capture.id].status = VALIDATED
              /\ UNCHANGED <<player_stats, player_equipment>>
    ]_vars

\* the equipment insert failed: the snapshot is stored, no capture is Validated
\* and the error message is shown
C22_Witness ==
  /\ last.op = "save_error"
  /\ Len(player_stats) = 1
  /\ player_equipment = {}
  /\ \A i \in Ids : rows[i].status = COMPLETED

\* C26: no capture is Completed with an empty result or with a decoded value
\* that is not a JSON object (a response without a usable object leaves the
\* capture Pending).
C26_NoEmptyCompleted ==
  \A i \in Ids :
    rows[i].status = COMPLETED =>
      /\ rows[i].result_json # Null
      /\ Truthy(rows[i].result_json[1])

\* the invocations of the call that returned a value
ReturningInvocations ==
  {i \in 1..Len(wrapper.invoked) : wrapper.invoked[i].kind = "return"}

\* C29: a wrapped function is invoked at most max_attempts times per call; the
\* first invocation that returns ends the call with its value, None included,
\* and nothing is invoked after it.
C29_AtMostMaxAttempts ==
  wrapper # NotCalled =>
    /\ Len(wrapper.invoked) <= wrapper.max_attempts
    /\ \A i \in ReturningInvocations :
         /\ i = Len(wrapper.invoked)
         /\ wrapper.pc = "returned"
         /\ wrapper.outcome = wrapper.invoked[i]
         /\ ~ENABLED RetryNext
    /\ wrapper.pc = "returned" => ReturningInvocations # {}

\* the third invocation returned None after two listed exceptions
C29_Witness ==
  /\ wrapper # NotCalled
  /\ wrapper.max_attempts = 3
  /\ Len(wrapper.invoked) = 3
  /\ wrapper.pc = "returned"
  /\ wrapper.outcome = Returned(NoneStr)

\* the call is over
Finished == wrapper.pc \in {"returned", "raised"}

\* every invocation raised an exception of `exceptions`
AllRaisedListed ==
  \A i \in 1..Len(wrapper.invoked) :
    /\ wrapper.invoked[i].kind = "raise"
    /\ wrapper.invoked[i].exc.type = "ValueError"

\* C30: when every invocation raises a listed exception, the call ends after
\* exactly max_attempts invocations by raising the exception of the last one,
\* for sync and async functions and for max_attempts = 1.
C30_ReraisesLast ==
  (wrapper # NotCalled /\ wrapper.max_attempts >= 1 /\ AllRaisedListed) =>
    /\ Finished =>
         /\ Len(wrapper.invoked) = wrapper.max_attempts
         /\ wrapper.outcome = Raised(ValueError(wrapper.max_attempts))
    /\ ~Finished =>
         /\ Len(wrapper.invoked) <= wrapper.max_attempts
         /\ ENABLED RetryNext

\* an async function with max_attempts = 1 raised once and the call raised it
C30_Witness ==
  /\ wrapper # NotCalled
  /\ wrapper.is_async
  /\ wrapper.max_attempts = 1
  /\ wrapper.pc = "raised"
  /\ wrapper.outcome = Raised(ValueError(1))

\* the fields of a result that hold a value, among the 22 expected
Populated(result) ==
  Cardinality({f \in {"character_name"} : result[f] # NoneStr})
  + Cardinality({f \in {"points", "global_power", "agility", "endurance", "serve",
                        "volley", "forehand", "backhand", "character_level"} :
                   result[f] # None})
  + Cardinality({i \in 1..Len(result.equipment) :
                   result.equipment[i].card_name # NoName})
  + Cardinality({i \in 1..Len(result.equipment) :
                   result.equipment[i].card_level # None})

\* C23: the confidence of every extraction result is the number of populated
\* fields out of 22 (so between 0 and 1), also when an internal error stopped
\* the extraction after some fields were populated.
C23_ConfidenceIsPopulatedShare ==
  extracted # NotExtracted =>
    /\ extracted.result.confidence = Populated(extracted.result)
    /\ extracted.result.confidence \in 0..total_fields

\* C24: every extraction result has exactly six equipment entries, for the
\* slots 1 to 6 in order, also for a missing or undecodable image and after an
\* internal error.
C24_SixEquipmentEntries ==
  extracted # NotExtracted =>
    /\ Len(extracted.result.equipment) = 6
    /\ \A slot \in 1..6 : extracted.result.equipment[slot].slot = slot

\* the image does not exist or cannot be decoded
Undecodable == ~image.exists \/ image.imread # "image"

\* C25: for an image that does not exist or cannot be decoded the extraction
\* returns, without raising, a result with confidence 0, no populated field and
\* at least one warning.
C25_UnreadableImage ==
  (extracted # NotExtracted /\ Undecodable) =>
    /\ ~extracted.raised
    /\ extracted.result.confidence = 0
    /\ Populated(extracted.result) = 0
    /\ Len(extracted.result.warnings) >= 1

\* the extraction of a missing image has returned
C25_Witness ==
  /\ extracted # NotExtracted
  /\ ~image.exists
  /\ extracted.result.warnings = <<"Image non trouvee">>

\* the slots of a result that hold a name or a level
PopulatedSlots(result) ==
  {result.equipment[i].slot : i \in
     {j \in 1..Len(result.equipment) :
        \/ result.equipment[j].card_name # NoName
        \/ result.equipment[j].card_level # None}}

\* C27: for the catalog name of any card of slot K, alone or followed by a
\* level, the resolver populates the entry of slot K and no other.
C27_CatalogNameResolvesToItsSlot ==
  extracted # NotExtracted =>
    \A k \in 1..Len(CARD_TO_SLOT) :
      image.text_cards \in CatalogTexts(CARD_TO_SLOT[k].card_key) =>
        PopulatedSlots(extracted.result) = {CARD_TO_SLOT[k].slot}

\* "la Ara 12" has been resolved to slot 4 with its level
C27_Witness ==
  /\ extracted # NotExtracted
  /\ image.text_cards = <<"l", "a", " ", "A", "r", "a", " ", "1", "2">>
  /\ extracted.result.equipment[4].card_name = <<"A", "r", "a">>
  /\ extracted.result.equipment[4].card_level = 12

\* C28: a player_stats row, once appended, is never modified or deleted, the
\* maintenance scripts included.
C28_SnapshotsNeverChange ==
  [][/\ Len(player_stats') >= Len(player_stats)
     /\ \A i \in 1..Len(player_stats) : player_stats'[i] = player_stats[i]
    ]_vars

\* C31: an exception whose type is not in `exceptions` leaves the call from the
\* first invocation that raises it: it is the outcome of the call, nothing is
\* invoked after it, and on_retry has been called only for the listed
\* exceptions raised before it.
C31_UnlistedPropagates ==
  wrapper # NotCalled =>
    \A i \in 1..Len(wrapper.invoked) :
      wrapper.invoked[i].exc.type = "TypeError" =>
        /\ i = Len(wrapper.invoked)
        /\ wrapper.pc = "raised"
        /\ wrapper.outcome = Raised(TypeError(i))
        /\ wrapper.retried = (IF wrapper.on_retry THEN i - 1 ELSE 0)
        /\ ~ENABLED RetryNext

\* with on_retry and three attempts allowed, the second invocation raised a
\* TypeError after one retried ValueError
C31_Witness ==
  /\ wrapper # NotCalled
  /\ wrapper.max_attempts = 3
  /\ wrapper.on_retry
  /\ wrapper.invoked = <<Raised(ValueError(1)), Raised(TypeError(2))>>
  /\ wrapper.retried = 1
  /\ wrapper.pc = "raised"

\* C32: after any sequence of set calls on a TTLCache with max_size m, the key
\* just set is present and the cache holds at most m entries.
C32_SizeWithinMax ==
  (cache # NoCache /\ last.op = "set") =>
    /\ Position(cache._cache, last.id) # 0
    /\ Len(cache._cache) <= cache._max_size

\* the cache holds a value for key that has not expired
Unexpired(key) ==
  \E i \in 1..Len(cache._cache) :
    cache._cache[i].key = key /\ now <= cache._cache[i].expires_at

\* C33: a call of a function wrapped by cached executes the function body
\* exactly when the cache holds no unexpired value for the call's key; a None
\* result is never stored, and invalidate removes the value stored for its key.
C33_BodyRunsOnMiss ==
  [][/\ last'.op \in {"hit", "miss"} =>
          /\ cache'.call_count \in {cache.call_count, cache.call_count + 1}
          /\ cache'.call_count = cache.call_count + 1 <=> ~Unexpired(last'.id)
     /\ last'.op = "returned" => cache'.call_count = cache.call_count
     /\ last'.op = "invalidate" => Position(cache'._cache, last'.id) = 0
     /\ \A i \in 1..Len(cache'._cache) : cache'._cache[i].value # NoneStr
    ]_vars

\* after one execution for key 1 a second call was answered from the cache
C33_Witness ==
  /\ cache # NoCache
  /\ last = [op |-> "hit", id |-> 1]
  /\ cache.call_count = 1
  /\ cache.awaiting[1] = 0
  /\ Unexpired(1)

\* the commands of a user that ran in the window of length period ending at t
RanWithin(lim, user, t) ==
  Cardinality({i \in 1..Len(lim.executed[user]) :
                 /\ lim.executed[user][i] > t - period
                 /\ lim.executed[user][i] <= t})

\* C34: under the is_limited-then-record_call protocol of rate_limit a user is
\* reported limited exactly when at least `calls` of that user's recorded calls
\* lie within the last `period` seconds, and always when calls is 0; so no user
\* runs a limited command more than `calls` times in any window of length
\* `period`, whatever the other users do.
C34_LimitedExactlyAtAllowance ==
  [][/\ last'.op \in {"limited", "executed"} =>
          /\ last'.op = "limited" <=>
                \/ limiter.calls = 0
                \/ RanWithin(limiter, last'.id, now) >= limiter.calls
          /\ \A other \in Authors \ {last'.id} :
                /\ limiter'._usage[other] = limiter._usage[other]
                /\ limiter'.executed[other] = limiter.executed[other]
     /\ \A user \in Authors, t \in 0..now' :
          RanWithin(limiter', user, t) <= limiter'.calls
    ]_vars

\* with calls = 2 a user ran two commands, was refused, and ran a third one
\* once the first two had left the window
C34_Witness ==
  /\ limiter # NoLimiter
  /\ limiter.calls = 2
  /\ \E user \in Authors :
       /\ last = [op |-> "limited", id |-> user]
       /\ Len(limiter.executed[user]) = 3
       /\ RanWithin(limiter, user, now) = 2
       /\ \E other \in Authors : Len(limiter.executed[other]) = 1

\* this step ends the validation session of pass p for its current capture:
\* the session was waiting for an answer, a selection or the save, or the
\* step marked the capture and returned before a prompt could be awaited
SessionEnds(p) ==
  /\ todo[p] # << >>
  /\ todo'[p] = Tail(todo[p])
  /\ \/ pc[p] \in {"wait", "player_select", "build_select", "save"}
     \/ /\ pc[p] \in {"iter", "lookup"}
        /\ Head(todo[p]).id \notin notified
        /\ Head(todo[p]).id \in notified'

\* C35: when a validation session ends without changing the status of its
\* capture, for a reason other than the main prompt timing out (preview not
\* delivered, empty stored result, selection cancelled or timed out, failed
\* save), the notified marker of the capture is removed.
C35_MarkerRemovedOnAbandon ==
  [][\A p \in Passes :
       (/\ SessionEnds(p)
        /\ rows'[Head(todo[p]).id].status = rows[Head(todo[p]).id].status
        /\ last'.op # "timeout")
       => Head(todo[p]).id \notin notified'
    ]_vars

\* C36: appending the snapshot, appending its equipment rows and marking the
\* capture Validated take effect together or not at all: when the save of a
\* session ends with a snapshot appended, the equipment rows of the result are
\* stored and the capture is Validated.
C36_SavedTogether ==
  [][\A p \in Passes :
       (/\ pc[p] = "save"
        /\ pc'[p] # "save"
        /\ Len(player_stats') > Len(player_stats))
       => LET capture == Head(todo[p]) IN
          /\ rows'[capture.id].status = VALIDATED
          /\ player_equipment' =
               create_many(player_equipment, Len(player_stats) + 1,
                           capture.result_json[1])
    ]_vars

\* the level the text parsing found for a slot, None if it found none
TextLevel(slot) ==
  LET found_equipment == resolve_cards(image.text_cards) IN
  IF slot \in DOMAIN found_equipment THEN found_equipment[slot].level ELSE None

\* C37: when the text parsing and the zone detection both produce a level for
\* the same equipment slot, the result carries the zone-detected level.
C37_ZoneLevelWins ==
  (extracted # NotExtracted /\ Len(extracted.result.equipment) = 6) =>
    \A slot \in 1..6 :
      (slot \in DOMAIN image.detected_levels /\ TextLevel(slot) # None) =>
        extracted.result.equipment[slot].card_level = image.detected_levels[slot]

\* the first balanced span of braces of a text, << >> if there is none
FirstBalanced(text) ==
  LET opening == {i \in 1..Len(text) : text[i] = "{"}
      first == CHOOSE i \in opening : \A o \in opening : i <= o
      ends == {j \in first..Len(text) :
                 Depth(text, j) = Depth(text, first - 1)}
  IN IF opening = {} \/ ends = {} THEN << >>
     ELSE <<SubSeq(text, first, CHOOSE j \in ends : \A o \in ends : j <= o)>>

\* C38: a response made of one valid JSON object surrounded by other text,
\* text after the object that contains braces included, is parsed to that
\* object: the first balanced object is extracted, not the span from the first
\* opening brace to the last closing brace.
C38_FirstBalancedObject ==
  (answer # NoAnswer /\ answer.parsed) =>
    LET object == FirstBalanced(answer.response) IN
    (object # << >> /\ IsValue(loads(object[1]))) =>
      answer.returned = loads(object[1])

C40_CommittedOnceAndRecorded ==
  database # NoDatabase =>
    \A f \in 1..NumMigrations :
      /\ database.committed[f] <= 1
      /\ f \in database.schema_migrations <=> database.committed[f] = 1

C40_Witness ==
  /\ database # NoDatabase
  /\ database.schema_migrations = {1}
  /\ database.committed = [f \in 1..NumMigrations |-> IF f = 1 THEN 1 ELSE 0]
  /\ last = [op |-> "rollback", id |-> 2]
  /\ database.run["r2"] = [pc |-> "executed", pending |-> <<1, 2, 3>>]

====
